---------------------------- MODULE Spec2Model ----------------------------
(***************************************************************************)
(* A model of io_scene_vintagestory_json/export_vintagestory_json.py, the  *)
(* exporter of a Blender scene of cuboids to the Vintage Story JSON model  *)
(* format.                                                                 *)
(*                                                                         *)
(* Specifications:                                                         *)
(*   SpecRot   get_reduced_rotation on Euler angles drawn from AngleSet    *)
(*   SpecTex   create_color_texture on 0..MaxColors distinct colors        *)
(*   Spec      save_objects on the scenes of SceneSet, phase by phase      *)
(*   SpecAnim  save_all_animations on lists of up to MaxActions actions    *)
(*   SpecUV    the texture branch of the face loop on one polygon          *)
(*   SpecClamp clamp_rotation, loop test by loop test                      *)
(*   SpecAxis  to_y_up applied up to MaxCalls times                        *)
(*   SpecFace  the face loop on a box under 90 degree step rotations       *)
(*                                                                         *)
(* Angles are integers in units of 5e-7 rad, so that pi/2, pi/4 and the    *)
(* eps of get_reduced_rotation are all whole numbers.  3-vectors are       *)
(* tuples <<x, y, z>>; Euler rotations are records [x, y, z].  None is the *)
(* empty tuple <<>> and an optional value v is <<v>>.                      *)
(***************************************************************************)
EXTENDS Integers, Sequences, FiniteSets, TLC

VARIABLES
    rotation, reduced, pcRot,
    colors, atlas, pcTex,
    uvIn, uvOut, pcUV,
    clampIn, clampR, pcClamp,
    axisIn, axisOut, axisCalls,
    faceIn, faceOut, pcFace,
    bpy, returned, pcAnim,
    scene, options, pc, err, armature, export_objects, root_elements,
    model_colors, model_textures, color_tex, texture_refs, model_json, file

rotVars == <<rotation, reduced, pcRot>>

texVars == <<colors, atlas, pcTex>>

uvVars == <<uvIn, uvOut, pcUV>>

clampVars == <<clampIn, clampR, pcClamp>>

axisVars == <<axisIn, axisOut, axisCalls>>

faceVars == <<faceIn, faceOut, pcFace>>

pureVars == <<uvVars, clampVars, axisVars, faceVars>>

animVars == <<returned, pcAnim>>

exportVars == <<scene, options, pc, err, armature, export_objects, root_elements,
                model_colors, model_textures, color_tex, texture_refs, model_json,
                file>>

vars == <<rotVars, texVars, bpy, animVars, exportVars, pureVars>>

----------------------------------------------------------------------------
(* Bounds of the model *)

\* input angles lie within MaxSteps quarter turns (plus an offset) of zero
MaxSteps == 2

\* create_color_texture is given at most MaxColors distinct colors
MaxColors == 130

\* object 2 has at most 6 + MaxExtraPolys polygons
MaxExtraPolys == 2

\* the largest frame of a keyframe point or marker of a drawn action
MaxFrame == 2

\* the most actions in bpy.data.actions
MaxActions == 2

----------------------------------------------------------------------------
(* Strings the code slices or tests by prefix are tuples of characters. *)

S_base == <<"b", "a", "s", "e">>
S_cube == <<"c", "u", "b", "e">>
S_body == <<"b", "o", "d", "y">>
S_arm == <<"a", "r", "m">>
S_hand == <<"h", "a", "n", "d">>
S_tip == <<"t", "i", "p">>
S_attach_tool == <<"a", "t", "t", "a", "c", "h", "_", "t", "o", "o", "l">>
S_marker == <<"m", "a", "r", "k", "e", "r">>
S_Armature == <<"A", "r", "m", "a", "t", "u", "r", "e">>
S_ArmatureData == <<"A", "r", "m", "a", "t", "u", "r", "e", ".", "0", "0", "1">>
S_attach_ == <<"a", "t", "t", "a", "c", "h", "_">>
S_Collection == <<"C", "o", "l", "l", "e", "c", "t", "i", "o", "n">>
S_Parts == <<"P", "a", "r", "t", "s">>
S_texA == <<"/", "/", "t", "e", "x", "/", "s", "k", "i", "n", ".", "p", "n", "g">>
S_texB == <<"/", "/", "t", "e", "x", "\\", "i", "r", "o", "n", ".", "p", "n", "g">>
S_texX == <<"/", "/", "e", "x", "t", "r", "a", ".", "p", "n", "g">>
S_hash0 == <<"#", "0">>
S_pose_bones == <<"p", "o", "s", "e", ".", "b", "o", "n", "e", "s">>
S_close == <<"]">>
S_location == <<"l", "o", "c", "a", "t", "i", "o", "n">>
S_rotation_euler ==
    <<"r", "o", "t", "a", "t", "i", "o", "n", "_", "e", "u", "l", "e", "r">>
S_rotation_quaternion ==
    <<"r", "o", "t", "a", "t", "i", "o", "n", "_", "q", "u", "a", "t", "e",
      "r", "n", "i", "o", "n">>
S_Stop == <<"S", "t", "o", "p">>
S_onActivityStopped_ ==
    <<"o", "n", "A", "c", "t", "i", "v", "i", "t", "y", "S", "t", "o", "p",
      "p", "e", "d", "_">>
S_onAnimationEnd_ ==
    <<"o", "n", "A", "n", "i", "m", "a", "t", "i", "o", "n", "E", "n", "d",
      "_">>
S_onAnimationEnd_Hold ==
    <<"o", "n", "A", "n", "i", "m", "a", "t", "i", "o", "n", "E", "n", "d",
      "_", "H", "o", "l", "d">>
S_onAnimationEnd_Repeat ==
    <<"o", "n", "A", "n", "i", "m", "a", "t", "i", "o", "n", "E", "n", "d",
      "_", "R", "e", "p", "e", "a", "t">>
S_onActivityStopped_Rewind ==
    <<"o", "n", "A", "c", "t", "i", "v", "i", "t", "y", "S", "t", "o", "p",
      "p", "e", "d", "_", "R", "e", "w", "i", "n", "d">>
S_Hold == <<"H", "o", "l", "d">>
S_Repeat == <<"R", "e", "p", "e", "a", "t">>
S_Rewind == <<"R", "e", "w", "i", "n", "d">>
S_walk == <<"w", "a", "l", "k">>
S_idle == <<"i", "d", "l", "e">>
S_rest == <<"r", "e", "s", "t">>
S_wave == <<"w", "a", "v", "e">>
S_slide == <<"s", "l", "i", "d", "e">>
S_nod == <<"n", "o", "d">>
P_arm_location ==
    <<"p", "o", "s", "e", ".", "b", "o", "n", "e", "s", "[", "\"", "a",
      "r", "m", "\"", "]", ".", "l", "o", "c", "a", "t", "i", "o", "n">>
P_arm_rotation_euler ==
    <<"p", "o", "s", "e", ".", "b", "o", "n", "e", "s", "[", "\"", "a",
      "r", "m", "\"", "]", ".", "r", "o", "t", "a", "t", "i", "o", "n",
      "_", "e", "u", "l", "e", "r">>
P_arm_rotation_quaternion ==
    <<"p", "o", "s", "e", ".", "b", "o", "n", "e", "s", "[", "\"", "a",
      "r", "m", "\"", "]", ".", "r", "o", "t", "a", "t", "i", "o", "n",
      "_", "q", "u", "a", "t", "e", "r", "n", "i", "o", "n">>
P_body_location ==
    <<"p", "o", "s", "e", ".", "b", "o", "n", "e", "s", "[", "\"", "b",
      "o", "d", "y", "\"", "]", ".", "l", "o", "c", "a", "t", "i", "o",
      "n">>
P_body_rotation_quaternion ==
    <<"p", "o", "s", "e", ".", "b", "o", "n", "e", "s", "[", "\"", "b",
      "o", "d", "y", "\"", "]", ".", "r", "o", "t", "a", "t", "i", "o",
      "n", "_", "q", "u", "a", "t", "e", "r", "n", "i", "o", "n">>
P_ghost_location ==
    <<"p", "o", "s", "e", ".", "b", "o", "n", "e", "s", "[", "\"", "g",
      "h", "o", "s", "t", "\"", "]", ".", "l", "o", "c", "a", "t", "i",
      "o", "n">>
P_object_location == <<"l", "o", "c", "a", "t", "i", "o", "n">>

----------------------------------------------------------------------------
(* Numbers *)

\* F(v), with v evaluated once, before F uses it
Strict(F(_), v) == CHOOSE r \in {F(x) : x \in {v}} : TRUE

\* s[i], with s evaluated once
At(s, i) == Strict(LAMBDA v : v[i], s)

Abs(x) == IF x >= 0 THEN x ELSE -x

\* math.pi / 2 in units of 5e-7 rad
HalfPi == 3141592

\* math.pi / 4
QuarterPi == HalfPi \div 2

\* eps = 1e-6 rad
Eps == 2

\* atan(3/4) = 0.6435011 rad: cos = 4/5, sin = 3/5
Beta == 2 * 643501

\* sign(x): 1 or -1, with sign(0) = 1
sign(x) == IF x >= 0 THEN 1 ELSE -1

----------------------------------------------------------------------------
(* Rotation matrices, exact on the angles k*pi/2 + {0, Beta, -Beta}.       *)
(* A matrix is a tuple of three rows; Rot*5 are scaled by 5, the matrix of *)
(* an Euler rotation by 125.                                               *)

FullTurn == 4 * HalfPi

IsTrigAngle(a) == (a % HalfPi) \in {0, Beta, HalfPi - Beta}

\* 5*cos(a) for a in 0..pi/2
Cos5Base(r) == CASE r = 0 -> 5
                 [] r = Beta -> 4
                 [] r = HalfPi - Beta -> 3
                 [] r = HalfPi -> 0

Cos5(a) ==
    LET n == a % FullTurn
        q == n \div HalfPi
        r == n % HalfPi
    IN CASE q = 0 -> Cos5Base(r)
         [] q = 1 -> -Cos5Base(HalfPi - r)
         [] q = 2 -> -Cos5Base(r)
         [] q = 3 -> Cos5Base(HalfPi - r)

Sin5(a) == Cos5(a - HalfPi)

MatMul(A, B) ==
    Strict(LAMBDA p : [i \in 1..3 |-> [j \in 1..3 |->
                p[1][i][1] * p[2][1][j] + p[1][i][2] * p[2][2][j]
                    + p[1][i][3] * p[2][3][j]]],
           <<A, B>>)

MatScale(k, A) == [i \in 1..3 |-> [j \in 1..3 |-> k * A[i][j]]]

RotX5(a) == << <<5, 0, 0>>, <<0, Cos5(a), -Sin5(a)>>, <<0, Sin5(a), Cos5(a)>> >>
RotY5(a) == << <<Cos5(a), 0, Sin5(a)>>, <<0, 5, 0>>, <<-Sin5(a), 0, Cos5(a)>> >>
RotZ5(a) == << <<Cos5(a), -Sin5(a), 0>>, <<Sin5(a), Cos5(a), 0>>, <<0, 0, 5>> >>

\* Euler(..., "XYZ").to_matrix(): rotate about X, then Y, then Z
EulerToMatrix125(e) == MatMul(RotZ5(e.z), MatMul(RotY5(e.y), RotX5(e.x)))

IsTrigEuler(e) == IsTrigAngle(e.x) /\ IsTrigAngle(e.y) /\ IsTrigAngle(e.z)

----------------------------------------------------------------------------
(* get_reduced_rotation *)

XYThresholdQuarterPi == QuarterPi

\* the threshold of the X and Y loops
XYThreshold == HalfPi

ZThresholdHalfPi == HalfPi

\* the threshold of the Z loop
ZThreshold == QuarterPi

\* one of the three while loops: extract 90 degree steps of sign sgn from res
RECURSIVE ReduceAxis(_, _, _, _)
ReduceAxis(res, steps, sgn, threshold) ==
    IF Abs(res) > threshold - Eps /\ sign(res) = sgn
    THEN ReduceAxis(res - sgn * HalfPi, steps + sgn, sgn, threshold)
    ELSE [residual |-> res, steps |-> steps]

Rotation90degAlways(xsteps, ysteps, zsteps) ==
    << [x |-> xsteps * HalfPi, y |-> ysteps * HalfPi, z |-> zsteps * HalfPi] >>

\* lines 193-196: rotation_90deg is <<>> for None, else the one Euler
\* rotation of the steps
Rotation90deg(xsteps, ysteps, zsteps) ==
    IF xsteps # 0 \/ ysteps # 0 \/ zsteps # 0
    THEN << [x |-> xsteps * HalfPi, y |-> ysteps * HalfPi, z |-> zsteps * HalfPi] >>
    ELSE <<>>

get_reduced_rotation(rot) ==
    LET ax == ReduceAxis(rot.x, 0, sign(rot.x), XYThreshold)
        ay == ReduceAxis(rot.y, 0, sign(rot.y), XYThreshold)
        az == ReduceAxis(rot.z, 0, sign(rot.z), ZThreshold)
    IN [residual_rotation |->
            [x |-> ax.residual, y |-> ay.residual, z |-> az.residual],
        xsteps |-> ax.steps, ysteps |-> ay.steps, zsteps |-> az.steps,
        rotation_90deg |-> Rotation90deg(ax.steps, ay.steps, az.steps)]

----------------------------------------------------------------------------
(* create_color_texture *)

\* min_size, the default of create_color_texture
MinSize == 16

RECURSIVE Pow2(_)
Pow2(n) == IF n = 0 THEN 1 ELSE 2 * Pow2(n - 1)

\* math.ceil(math.sqrt(n))
CeilSqrt(n) == CHOOSE k \in 0..n : k * k >= n /\ (k = 0 \/ (k - 1) * (k - 1) < n)

\* math.ceil(math.log2(m)), m >= 1
CeilLog2(m) == CHOOSE e \in 0..m : Pow2(e) >= m /\ (e = 0 \/ Pow2(e - 1) < m)

Max(a, b) == IF a >= b THEN a ELSE b

\* colors on each axis, one tile more than the colors for the default color
ColorGridSize(cs) == CeilSqrt(Len(cs) + 1)

TexSizeNoMin(cs) == Pow2(CeilLog2(3 * ColorGridSize(cs)))

\* the side of the (2^n, 2^n) image
TexSize(cs) == Max(MinSize, Pow2(CeilLog2(3 * ColorGridSize(cs))))

TileUVNoRow(i, grid) ==
    << (3 * (i % grid) + 1) * 16, (3 * (i % grid) + 1) * 16,
       (3 * (i % grid) + 2) * 16, (3 * (i % grid) + 2) * 16 >>

\* The uv rectangle [x1, y1, x2, y2] of tile i (from 0).  The code's values
\* are these divided by tex_size: x1 = (3 * col + 1) / tex_size * 16.
TileUV(i, grid) ==
    << (3 * (i % grid) + 1) * 16, (3 * (i \div grid) + 1) * 16,
       (3 * (i % grid) + 2) * 16, (3 * (i \div grid) + 2) * 16 >>

\* (tex_size, color_tex_uv_map, default_color_uv); color i of the iterable
\* is colors[i + 1]; the pixels are not modelled
create_color_texture(cs) ==
    [tex_size |-> TexSize(cs),
     color_tex_uv_map |->
        [c \in {cs[k] : k \in 1..Len(cs)} |->
            LET i == (CHOOSE k \in 1..Len(cs) : cs[k] = c) - 1
            IN TileUV(i, ColorGridSize(cs))],
     default_color_uv |-> TileUV(Len(cs), ColorGridSize(cs))]

NoAtlas == [tex_size |-> 0, color_tex_uv_map |-> <<>>,
            default_color_uv |-> <<0, 0, 0, 0>>]

----------------------------------------------------------------------------
(* Vectors and rigid transforms.  Scene rotations are quarter turns about  *)
(* one axis, so every matrix below has integer entries.                    *)

Vec0 == <<0, 0, 0>>

VAdd(a, b) ==
    Strict(LAMBDA p : <<p[1][1] + p[2][1], p[1][2] + p[2][2], p[1][3] + p[2][3]>>,
           <<a, b>>)

VSub(a, b) ==
    Strict(LAMBDA p : <<p[1][1] - p[2][1], p[1][2] - p[2][2], p[1][3] - p[2][3]>>,
           <<a, b>>)

Dot(a, b) ==
    Strict(LAMBDA p : p[1][1] * p[2][1] + p[1][2] * p[2][2] + p[1][3] * p[2][3],
           <<a, b>>)

MatVec(M, v) ==
    Strict(LAMBDA p : <<Dot(p[1][1], p[2]), Dot(p[1][2], p[2]), Dot(p[1][3], p[2])>>,
           <<M, v>>)

Transpose(M) == Strict(LAMBDA m : [i \in 1..3 |-> [j \in 1..3 |-> m[j][i]]], M)

Identity3 == << <<1, 0, 0>>, <<0, 1, 0>>, <<0, 0, 1>> >>

Euler0 == [x |-> 0, y |-> 0, z |-> 0]

\* Euler.to_matrix() of a rotation by quarter turns
EulerToMatrix(e) ==
    Strict(LAMBDA m : [i \in 1..3 |-> [j \in 1..3 |-> m[i][j] \div 125]],
           EulerToMatrix125(e))

\* the Euler rotations about a single axis by -90, 0 or 90 degrees
SingleAxisEulers ==
    {[x |-> a, y |-> 0, z |-> 0] : a \in {-HalfPi, 0, HalfPi}}
    \cup {[x |-> 0, y |-> a, z |-> 0] : a \in {-HalfPi, 0, HalfPi}}
    \cup {[x |-> 0, y |-> 0, z |-> a] : a \in {-HalfPi, 0, HalfPi}}

\* quat.to_euler("XYZ") of the rotation of matrix R (a single axis rotation)
MatToEuler(R) == CHOOSE e \in SingleAxisEulers : EulerToMatrix(e) = R

\* A 4x4 rigid transform: rotation R and translation t.
Mat4(R, t) == [R |-> R, t |-> t]

\* parent_matrix_world.inverted_safe() @ matrix_world
InvertedMul(P, W) ==
    Strict(LAMBDA p : Mat4(MatMul(Transpose(p[1].R), p[2].R),
                           MatVec(Transpose(p[1].R), VSub(p[2].t, p[1].t))),
           <<P, W>>)

\* Quaternion(M @ axis, theta).to_euler("XYZ") for (axis, theta) of e:
\* the rotation e with its axis turned by M
RotateAxisOf(M, e) ==
    MatToEuler(MatMul(MatMul(M, EulerToMatrix(e)), Transpose(M)))

to_y_up_swapped(arr) == <<arr[2], arr[1], arr[3]>>

\* to_y_up: blender (x, y, z) -> (y, z, x)
to_y_up(arr) == Strict(LAMBDA a : <<a[2], a[3], a[1]>>, arr)

\* radians (units of 5e-7 rad) to degrees, exact on quarter turns
RadToDeg(a) == (a * 90) \div HalfPi

\* to_vintagestory_rotation: to_euler("XZY"), then (y, z, x) in degrees;
\* a single axis rotation has the same angles in every Euler order
to_vintagestory_rotation(e) == <<RadToDeg(e.y), RadToDeg(e.z), RadToDeg(e.x)>>

----------------------------------------------------------------------------
(* The scene.  A scene is described by a small record sc of choices; the   *)
(* objects, bones and materials of bpy are functions of it.                *)
(*   kind      "plain": meshes parented to each other;                     *)
(*             "armature": object 1 is an armature, 2..4 hang on its bones *)
(*   par2,par3 plain: the parents of objects 2 and 3 (0: none)             *)
(*   rot       plain: which objects are rotated by a quarter turn          *)
(*   pb        armature: the parent_bone of objects 2, 3, 4                *)
(*   chain     armature: bones body > arm > hand, else arm is a root too   *)
(*   bad       the object whose mesh has not 8 vertices (0: none)          *)
(*   extra     the number of polygons of object 2 beyond 6                 *)
(*   data_name the name of the armature datablock                          *)

ObjIds == 1..6

BoneNames == <<S_body, S_arm, S_hand>>

RotConfigs ==
    << <<Euler0, Euler0>>,
       <<[x |-> HalfPi, y |-> 0, z |-> 0], Euler0>>,
       <<[x |-> 0, y |-> 0, z |-> -HalfPi], Euler0>>,
       <<Euler0, [x |-> 0, y |-> HalfPi, z |-> 0]>>,
       <<[x |-> HalfPi, y |-> 0, z |-> 0], [x |-> 0, y |-> 0, z |-> HalfPi]>> >>

\* scenes without an armature: object 1 is a mesh.  The mesh that is no
\* cuboid (bad) is varied in the unrotated scenes with six-faced meshes.
PlainScenes ==
    {s \in [kind : {"plain"}, par2 : {0, 1}, par3 : {0, 1, 2},
            rot : 1..Len(RotConfigs), pb : {<<S_body, S_body, S_body>>},
            chain : {TRUE}, bad : 0..5, extra : 0..MaxExtraPolys,
            data_name : {S_Armature}] :
        s.bad # 0 => (s.rot = 1 /\ s.extra = 0)}

\* scenes with an armature: object 1 is the armature, objects 2..4 are
\* parented to its bones as pb says.  The mesh that is no cuboid is varied
\* in the scenes whose bones form one chain.
ArmatureScenes ==
    {s \in [kind : {"armature"}, par2 : {0}, par3 : {0}, rot : {1},
            pb : {<<a, b, c>> : a \in {S_body, S_arm, S_hand},
                                b \in {S_body, S_arm, S_hand},
                                c \in {S_body, S_arm, S_hand}},
            chain : BOOLEAN, bad : {0} \cup 2..5, extra : {0},
            data_name : {S_Armature, S_ArmatureData}] :
        s.bad # 0 => (s.chain /\ s.data_name = S_Armature)}

SceneSet == PlainScenes \cup ArmatureScenes

\* material values: what get_material_color returns for the material
Solid(c) == [kind |-> "color", color |-> c, path |-> <<>>, size |-> <<0, 0>>]

Textured(p, w, h) == [kind |-> "texture", color |-> "", path |-> p, size |-> <<w, h>>]

\* a slot without a material, or a material without a color input
NoMaterial == [kind |-> "none", color |-> "", path |-> <<>>, size |-> <<0, 0>>]

\* the polygon normals of a cube, in mesh.polygons order
CubeNormals ==
    << <<-1, 0, 0>>, <<0, 1, 0>>, <<1, 0, 0>>, <<0, -1, 0>>, <<0, 0, -1>>, <<0, 0, 1>> >>

\* uv coordinates are multiples of 1/UVUnit: the uv value 1.0 is UVUnit
UVUnit == 4

\* the k-th element of a loop of four that starts at corner `start` of
\* `base` and runs along it (ccw) or against it
LoopFrom(base, start, ccw) ==
    [k \in 1..4 |-> base[((IF ccw THEN start + (k - 1) ELSE start + 4 - (k - 1)) % 4) + 1]]

\* the corners of the cube face with the given normal, counterclockwise
\* seen from outside; a corner is <<i, j, k>>, 1 for the low and 2 for the
\* high side of the box on each axis
FaceCorners(normal) ==
    CASE normal = << 1, 0, 0>> -> << <<2, 1, 1>>, <<2, 2, 1>>, <<2, 2, 2>>, <<2, 1, 2>> >>
      [] normal = <<-1, 0, 0>> -> << <<1, 1, 1>>, <<1, 1, 2>>, <<1, 2, 2>>, <<1, 2, 1>> >>
      [] normal = << 0, 1, 0>> -> << <<1, 2, 1>>, <<1, 2, 2>>, <<2, 2, 2>>, <<2, 2, 1>> >>
      [] normal = << 0,-1, 0>> -> << <<1, 1, 1>>, <<2, 1, 1>>, <<2, 1, 2>>, <<1, 1, 2>> >>
      [] normal = << 0, 0, 1>> -> << <<1, 1, 2>>, <<2, 1, 2>>, <<2, 2, 2>>, <<1, 2, 2>> >>
      [] normal = << 0, 0,-1>> -> << <<1, 1, 1>>, <<1, 2, 1>>, <<2, 2, 1>>, <<2, 1, 1>> >>

\* the index in mesh.vertices (from 0) of a corner
CornerIndex(c) == 4 * (c[1] - 1) + 2 * (c[2] - 1) + (c[3] - 1)

\* face.vertices: the vertex indices of the face loop
PolyVertices(normal, start, ccw) ==
    LET loop == LoopFrom(FaceCorners(normal), start, ccw)
    IN [k \in 1..4 |-> CornerIndex(loop[k])]

\* the four uv_layer entries of a face loop over the rectangle
\* rect = <<min_x, min_y, max_x, max_y>>
UVLoop(rect, start, ccw) ==
    LoopFrom(<< <<rect[1], rect[2]>>, <<rect[3], rect[2]>>,
                <<rect[3], rect[4]>>, <<rect[1], rect[4]>> >>, start, ccw)

\* the uv rectangles unwrapped faces use
UVRects == << <<0, 0, 4, 4>>, <<1, 2, 3, 4>>, <<0, 1, 2, 2>>, <<2, 0, 4, 3>> >>

\* mesh.polygons: six faces with the given material indices, then `extra`
\* more polygons using material index 2.  Polygon i has its vertex loop
\* counterclockwise from corner i % 4 and its uv loop from corner
\* (i \div 2) % 4, clockwise for every third polygon.
Polygons(mats, extra) ==
    [i \in 1..(6 + extra) |->
        LET n == IF i <= 6 THEN CubeNormals[i] ELSE CubeNormals[((i + 3) % 6) + 1]
        IN [normal |-> n,
            material_index |-> IF i <= 6 THEN mats[i] ELSE 2,
            vertices |-> PolyVertices(n, i % 4, TRUE),
            uvs |-> UVLoop(UVRects[(i % 4) + 1], (i \div 2) % 4, i % 3 # 0)]]

ObjName(sc, o) ==
    CASE o = 1 -> IF sc.kind = "armature" THEN S_Armature ELSE S_base
      [] o = 2 -> S_cube
      [] o = 3 -> S_body
      [] o = 4 -> S_arm
      [] o = 5 -> S_tip
      [] o = 6 -> S_attach_tool

ObjType(sc, o) ==
    CASE o = 1 -> IF sc.kind = "armature" THEN "ARMATURE" ELSE "MESH"
      [] o = 6 -> "EMPTY"
      [] OTHER -> "MESH"

\* obj.parent (0: None)
ObjParent(sc, o) ==
    CASE o = 1 -> 0
      [] o = 2 -> IF sc.kind = "armature" THEN 1 ELSE sc.par2
      [] o = 3 -> IF sc.kind = "armature" THEN 1 ELSE sc.par3
      [] o = 4 -> IF sc.kind = "armature" THEN 1 ELSE 3
      [] o = 5 -> 2
      [] o = 6 -> 2

\* obj.parent_bone (<<>>: "")
ObjParentBone(sc, o) ==
    IF sc.kind = "armature" /\ o \in 2..4 THEN sc.pb[o - 1] ELSE <<>>

ObjLocation(o) ==
    CASE o = 1 -> <<0, 0, 0>>
      [] o = 2 -> <<1, 0, 0>>
      [] o = 3 -> <<2, 3, 5>>
      [] o = 4 -> <<0, -4, 1>>
      [] o = 5 -> <<-2, 1, 3>>
      [] o = 6 -> <<1, 1, -1>>

ObjRotation(sc, o) ==
    CASE o = 1 -> RotConfigs[sc.rot][1]
      [] o = 2 -> RotConfigs[sc.rot][2]
      [] OTHER -> Euler0

\* the two opposite corners of the mesh, in local coordinates
ObjBox(o) ==
    CASE o = 1 -> << <<-1, -1, -1>>, <<1, 1, 1>> >>
      [] o = 2 -> << <<0, 0, 0>>, <<1, 2, 3>> >>
      [] o = 3 -> << <<-2, -1, 0>>, <<2, 1, 1>> >>
      [] o = 4 -> << <<-1, -1, -1>>, <<1, 1, 1>> >>
      [] o = 5 -> << <<0, -1, 0>>, <<3, 1, 2>> >>
      [] o = 6 -> << <<0, 0, 0>>, <<0, 0, 0>> >>

\* mesh.vertices: the 8 corners of the box; a mesh that is no cuboid has 6
BoxVertices(b) ==
    LET P(i, j, k) == <<b[i][1], b[j][2], b[k][3]>>
    IN <<P(1, 1, 1), P(1, 1, 2), P(1, 2, 1), P(1, 2, 2),
         P(2, 1, 1), P(2, 1, 2), P(2, 2, 1), P(2, 2, 2)>>

ObjVertices(sc, o) ==
    IF sc.bad = o THEN SubSeq(BoxVertices(ObjBox(o)), 1, 6)
    ELSE BoxVertices(ObjBox(o))

ObjMaterialSlots(o) ==
    CASE o = 1 -> <<Solid("red")>>
      [] o = 2 -> <<Textured(S_texA, 32, 16), Solid("green"), Textured(S_texX, 8, 8)>>
      [] o = 3 -> <<Textured(S_texB, 64, 64), Textured(S_texA, 32, 16)>>
      [] o = 4 -> <<>>
      [] o = 5 -> <<NoMaterial, Solid("blue")>>
      [] o = 6 -> <<>>

ObjPolygons(sc, o) ==
    CASE o = 1 -> Polygons(<<0, 0, 0, 0, 0, 0>>, 0)
      [] o = 2 -> Polygons(<<0, 0, 1, 1, 0, 0>>, sc.extra)
      [] o = 3 -> Polygons(<<0, 1, 0, 1, 0, 0>>, 0)
      [] o = 4 -> Polygons(<<0, 0, 0, 0, 0, 0>>, 0)
      [] o = 5 -> Polygons(<<0, 1, 1, 1, 1, 1>>, 0)
      [] o = 6 -> <<>>

\* obj.users_collection[0].name
ObjCollection(o) == IF o \in {2, 5} THEN S_Parts ELSE S_Collection

\* obj.children, in scene order
ObjChildren(sc, o) ==
    SelectSeq([i \in ObjIds |-> i], LAMBDA c : ObjParent(sc, c) = o)

\* obj.matrix_world: the local transforms composed down the parent chain
RECURSIVE ObjMatrixWorld(_, _)
ObjMatrixWorld(sc, o) ==
    LET R == EulerToMatrix(ObjRotation(sc, o))
        p == ObjParent(sc, o)
    IN IF p = 0 THEN Mat4(R, ObjLocation(o))
       ELSE Strict(LAMBDA P : Mat4(MatMul(P.R, R), VAdd(P.t, MatVec(P.R, ObjLocation(o)))),
                   ObjMatrixWorld(sc, p))

\* armature.data.bones: name, parent (<<>>: None) and head_local, in order
Bones(sc) ==
    << [name |-> S_body, parent |-> <<>>, head_local |-> <<0, 0, 1>>],
       [name |-> S_arm, parent |-> IF sc.chain THEN S_body ELSE <<>>,
        head_local |-> <<0, 2, 4>>],
       [name |-> S_hand, parent |-> S_arm, head_local |-> <<3, 2, 4>>] >>

BoneIndex(sc, name) == CHOOSE i \in 1..Len(Bones(sc)) : Bones(sc)[i].name = name

IsBone(sc, name) == \E i \in 1..Len(Bones(sc)) : Bones(sc)[i].name = name

\* the colors of bpy.data.materials
FileMaterialColors == {"red", "green", "blue", "white"}

----------------------------------------------------------------------------
(* get_bone_hierarchy *)

\* armature.children with a parent_bone, grouped by bone: the BoneNode
\* children lists before a main is chosen
BoneGroup(sc, arm, bone_name) ==
    SelectSeq(ObjChildren(sc, arm),
              LAMBDA o : ObjParentBone(sc, o) = bone_name)

\* the chosen main moved to index 0 by a swap with the first object
SwapToFront(children, i) ==
    [k \in 1..Len(children) |->
        IF k = 1 THEN children[i] ELSE IF k = i THEN children[1] ELSE children[k]]

get_bone_hierarchy_first(sc, arm) ==
    LET names == {ObjParentBone(sc, o) : o \in
                    {c \in ObjIds : ObjParent(sc, c) = arm
                                    /\ ObjParentBone(sc, c) # <<>>}}
    IN [b \in names |->
          [main |-> BoneGroup(sc, arm, b)[1], children |-> BoneGroup(sc, arm, b)]]

\* bone name -> [main, children], for the bones some object is parented to
get_bone_hierarchy(sc, arm) ==
    LET names == {ObjParentBone(sc, o) : o \in
                    {c \in ObjIds : ObjParent(sc, c) = arm
                                    /\ ObjParentBone(sc, c) # <<>>}}
    IN [b \in names |->
          LET children == BoneGroup(sc, arm, b)
              same == {i \in 1..Len(children) : ObjName(sc, children[i]) = b}
          IN IF same # {}
             THEN LET i == CHOOSE i \in same : \A j \in same : i <= j
                  IN [main |-> children[i], children |-> SwapToFront(children, i)]
             ELSE [main |-> children[1], children |-> children]]

\* bone.children: the bones whose parent is the bone, in armature order
BoneChildren(sc, bone_name) ==
    SelectSeq(Bones(sc), LAMBDA b : b.parent = bone_name)

----------------------------------------------------------------------------
(* generate_element: faces *)

DIRECTIONS == <<"north", "east", "west", "south", "up", "down">>

DIRECTION_NORMALS ==
    << <<-1, 0, 0>>, <<0, 1, 0>>, <<0, -1, 0>>, <<1, 0, 0>>, <<0, 0, 1>>, <<0, 0, -1>> >>

\* np.argmax: the first index holding the largest value
ArgMax(s) ==
    Strict(LAMBDA v : CHOOSE i \in 1..Len(v) :
                        /\ \A j \in 1..Len(v) : v[j] <= v[i]
                        /\ \A j \in 1..(i - 1) : v[j] < v[i],
           s)

FaceDirectionSmallest(normal) ==
    DIRECTIONS[ArgMax([k \in 1..6 |-> -Dot(normal, DIRECTION_NORMALS[k])])]

\* the direction whose normal has the largest dot product with the normal
FaceDirection(normal) ==
    DIRECTIONS[ArgMax([k \in 1..6 |-> Dot(normal, DIRECTION_NORMALS[k])])]

\* default_color of get_object_color: (0.0, 0.0, 0.0, 1.0)
DefaultColor == Solid("black")

get_object_color(slots, material_index) ==
    IF material_index < Len(slots) /\ slots[material_index + 1].kind # "none"
    THEN slots[material_index + 1]
    ELSE DefaultColor

\* a face as initialized: {"texture": "#0", "uv": [0, 0, 4, 4], "autoUv": False};
\* rotation is <<>> while the face has no "rotation" key
InitialFace ==
    [kind |-> "dict", texture |-> S_hash0, uv |-> <<0, 0, 4, 4>>,
     uv_div |-> 1, autoUv |-> FALSE, color |-> "", rotation |-> <<>>,
     generated |-> FALSE]

\* a face replaced by a color tuple
ColorFace(c) ==
    [kind |-> "tuple", texture |-> <<>>, uv |-> <<0, 0, 0, 0>>,
     uv_div |-> 1, autoUv |-> FALSE, color |-> c, rotation |-> <<>>,
     generated |-> FALSE]

----------------------------------------------------------------------------
(* clamp_rotation, lines 137-156.  Its numbers are float64 values: the
   model writes the value m * 2^e as [m |-> m, e |-> e], with e >= -1. *)

\* the significand of a float64 value has 53 bits
MantissaBits == 53

RECURSIVE BitLen(_)
BitLen(n) == IF n = 0 THEN 0 ELSE 1 + BitLen(n \div 2)

\* 360.0 = 45 * 2^3 in the unit 2^e, for e <= 3
Turn(e) == 45 * Pow2(3 - e)

\* x > 360.0
Gt360(x) ==
    IF x.e <= 3 THEN x.m > Turn(x.e)
    ELSE IF x.e >= 9 THEN x.m >= 1
    ELSE x.m * Pow2(x.e - 3) > 45

\* x < -360.0
LtMinus360(x) == Gt360([x EXCEPT !.m = -x.m])

\* log2 of the spacing of the float64 values just below the magnitude of x
SpacingBelow(x) ==
    LET n == Abs(x.m)
        top == BitLen(n) + x.e - 1
    IN (IF n = Pow2(BitLen(n) - 1) THEN top - 1 ELSE top) - (MantissaBits - 1)

\* x -= 360.0 for x > 360.0, rounded to the nearest float64 value.  The
\* difference is exact when 360 is a multiple of the unit of x and the
\* difference needs no more than 53 bits; it rounds back to x when 360 is
\* less than half the spacing of the values below x.
Sub360(x) ==
    CASE x.e <= 3 /\ BitLen(Abs(x.m)) <= MantissaBits -> [x EXCEPT !.m = @ - Turn(x.e)]
      [] x.e > 3 /\ SpacingBelow(x) >= 10 -> x

\* x += 360.0 for x < -360.0
Add360(x) ==
    LET y == Sub360([x EXCEPT !.m = -x.m])
    IN [y EXCEPT !.m = -y.m]

\* the while loops of clamp_rotation by the line of their test, with the
\* component each tests, whether it tests > 360.0 (or < -360.0), the line
\* of the body and the line after the loop
ClampLoops ==
    [l141 |-> [axis |-> 1, gt |-> TRUE,  body |-> "l142", next |-> "l143"],
     l143 |-> [axis |-> 1, gt |-> FALSE, body |-> "l144", next |-> "l146"],
     l146 |-> [axis |-> 2, gt |-> TRUE,  body |-> "l147", next |-> "l148"],
     l148 |-> [axis |-> 2, gt |-> FALSE, body |-> "l149", next |-> "l151"],
     l151 |-> [axis |-> 3, gt |-> TRUE,  body |-> "l152", next |-> "l153"],
     l153 |-> [axis |-> 3, gt |-> FALSE, body |-> "l154", next |-> "l156"]]

\* the loop whose body is at pcClamp, by the line of its test
LoopOfBody ==
    CHOOSE l \in DOMAIN ClampLoops : ClampLoops[l].body = pcClamp

\* the condition of the while loop at pcClamp; clampR is the array r
LoopCondition ==
    LET l == ClampLoops[pcClamp]
    IN IF l.gt THEN Gt360(clampR[l.axis]) ELSE LtMinus360(clampR[l.axis])

----------------------------------------------------------------------------
(* the uv rectangle and rotation of a textured face, lines 573-692 *)

COUNTERCLOCKWISE_UV_ROTATION_LOOKUP ==
    << <<0, 270, 180, 90>>,
       <<90, 0, 270, 180>>,
       <<180, 90, 0, 270>>,
       <<270, 180, 90, 0>> >>

CLOCKWISE_UV_ROTATION_LOOKUP ==
    << <<90, 0, 270, 180>>,
       <<0, 270, 180, 90>>,
       <<270, 180, 90, 0>>,
       <<180, 90, 0, 270>> >>

RECURSIVE WindingArea(_, _)
WindingArea(coords, i) ==
    IF i > Len(coords) THEN 0
    ELSE LET k == IF i < Len(coords) THEN i + 1 ELSE 1
         IN (coords[k][1] - coords[i][1]) * (coords[k][2] + coords[i][2])
            + WindingArea(coords, i + 1)

loop_is_clockwise(coords) == WindingArea(coords, 1) > 0

\* v_local[:, v]: v_local is a zero-filled array of 8 columns
VertexAt(v_local, v) == IF v + 1 <= Len(v_local) THEN v_local[v + 1] ELSE Vec0

\* lines 591-604: the 3d vertex loop projected onto 2d by the face normal;
\* a normal with no component beyond 0.5 leaves the vertices as they are
ProjectVerts(face_normal, verts) ==
    [k \in DOMAIN verts |->
        LET v == verts[k]
        IN CASE 2 * face_normal[1] > 1  -> <<v[2], v[3]>>
             [] 2 * face_normal[1] < -1 /\ ~(2 * face_normal[1] > 1) -> <<-v[2], v[3]>>
             [] OTHER ->
                  IF 2 * face_normal[2] > 1 THEN <<-v[1], v[3]>>
                  ELSE IF 2 * face_normal[2] < -1 THEN <<v[1], v[3]>>
                  ELSE IF 2 * face_normal[3] > 1 THEN <<v[2], -v[1]>>
                  ELSE IF 2 * face_normal[3] < -1 THEN <<v[2], v[1]>>
                  ELSE <<v[1], v[2]>>]

\* lines 581-584 and 606-609: the extent of a loop, from its corners 0 and 2
LoopExtent(loop) ==
    [min_x |-> IF loop[1][1] <= loop[3][1] THEN loop[1][1] ELSE loop[3][1],
     max_x |-> Max(loop[1][1], loop[3][1]),
     min_y |-> IF loop[1][2] <= loop[3][2] THEN loop[1][2] ELSE loop[3][2],
     max_y |-> Max(loop[1][2], loop[3][2])]

LoopStartIndexTopFirst(loop) ==
    LET e == LoopExtent(loop)
    IN IF loop[1][2] > e.min_y
       THEN (IF loop[1][1] < e.max_x THEN 0 ELSE 1)
       ELSE (IF loop[1][1] > e.min_x THEN 2 ELSE 3)

\* lines 615-649: the corner index 0..3 at which a loop starts
LoopStartIndex(loop) ==
    LET e == LoopExtent(loop)
    IN IF loop[1][2] < e.max_y
       THEN (IF loop[1][1] < e.max_x THEN 0 ELSE 1)
       ELSE (IF loop[1][1] > e.min_x THEN 2 ELSE 3)

FaceUVsFlipped(uvs, verts) ==
    LET e == LoopExtent(uvs)
    IN [face_uvs |-> <<e.max_x, e.max_y, e.min_x, e.min_y>>,
        face_uv_rotation |->
           CLOCKWISE_UV_ROTATION_LOOKUP[LoopStartIndex(uvs) + 1][LoopStartIndex(verts) + 1]]

FaceUVsTransposed(uvs, verts) ==
    LET e == LoopExtent(uvs)
        u == LoopStartIndex(uvs) + 1
        w == LoopStartIndex(verts) + 1
    IN IF loop_is_clockwise(uvs) = loop_is_clockwise(verts)
       THEN [face_uvs |-> <<e.min_x, e.max_y, e.max_x, e.min_y>>,
             face_uv_rotation |-> COUNTERCLOCKWISE_UV_ROTATION_LOOKUP[w][u]]
       ELSE [face_uvs |-> <<e.max_x, e.max_y, e.min_x, e.min_y>>,
             face_uv_rotation |-> CLOCKWISE_UV_ROTATION_LOOKUP[w][u]]

\* lines 655-683: face_uvs and face_uv_rotation
FaceUVs(uvs, verts) ==
    LET e == LoopExtent(uvs)
        uv_clockwise == loop_is_clockwise(uvs)
        vert_clockwise == loop_is_clockwise(verts)
        u == LoopStartIndex(uvs) + 1
        w == LoopStartIndex(verts) + 1
    IN IF uv_clockwise = vert_clockwise
       THEN [face_uvs |-> <<e.min_x, e.max_y, e.max_x, e.min_y>>,
             face_uv_rotation |-> COUNTERCLOCKWISE_UV_ROTATION_LOOKUP[u][w]]
       ELSE [face_uvs |-> <<e.max_x, e.max_y, e.min_x, e.min_y>>,
             face_uv_rotation |-> CLOCKWISE_UV_ROTATION_LOOKUP[u][w]]

WriteUVAlways(face, fu, tex_width, tex_height) ==
    [face EXCEPT !.uv = << fu.face_uvs[1] * tex_width,
                           (UVUnit - fu.face_uvs[2]) * tex_height,
                           fu.face_uvs[3] * tex_width,
                           (UVUnit - fu.face_uvs[4]) * tex_height >>,
                 !.uv_div = UVUnit,
                 !.rotation = <<fu.face_uv_rotation>>]

\* lines 685-692: the "uv" and "rotation" keys written to the face; uv is
\* in units of 1/UVUnit pixel
WriteUV(face, fu, tex_width, tex_height) ==
    LET r == fu.face_uv_rotation
        uv == << fu.face_uvs[1] * tex_width, (UVUnit - fu.face_uvs[2]) * tex_height,
                 fu.face_uvs[3] * tex_width, (UVUnit - fu.face_uvs[4]) * tex_height >>
    IN IF r # 0 /\ r # 360
       THEN [face EXCEPT !.uv = uv, !.uv_div = UVUnit,
                         !.rotation = << IF r >= 0 THEN r ELSE 360 + r >>]
       ELSE [face EXCEPT !.uv = uv, !.uv_div = UVUnit]

\* lines 566-692: the face a textured polygon leaves (export_uvs is True)
TexturedFace(face, polygon, face_normal, v_local, face_texture) ==
    WriteUV([face EXCEPT !.texture = face_texture.path],
            FaceUVs(polygon.uvs,
                    ProjectVerts(face_normal,
                                 [k \in 1..4 |-> VertexAt(v_local, polygon.vertices[k])])),
            face_texture.size[1], face_texture.size[2])

----------------------------------------------------------------------------
(* the face loop, lines 526-692 *)

PolygonLimitOff == 6 + 1

\* the polygons the face loop looks at: it breaks at the 7th
PolygonLimit == 6

ProcessedPolygons(polygons) ==
    IF Len(polygons) > PolygonLimit THEN SubSeq(polygons, 1, PolygonLimit)
    ELSE polygons

\* The loop over mesh.polygons.  rot is the sequence of the 90 degree
\* matrices applied to each normal (the parent's, then the object's own).
\* Gives the faces, the textures met (in order) and the colors met.
RECURSIVE FaceLoop(_, _, _, _, _, _, _)
FaceLoop(polygons, slots, rot, v_local, export_generated_texture, i, acc) ==
    IF i > Len(polygons) THEN acc
    ELSE
      LET face == polygons[i]
          n1 == IF Len(rot) >= 1 THEN MatVec(rot[1], face.normal) ELSE face.normal
          n2 == IF Len(rot) >= 2 THEN MatVec(rot[2], n1) ELSE n1
          d == FaceDirection(n2)
          face_texture == get_object_color(slots, face.material_index)
          next ==
            IF face_texture.kind = "color" /\ export_generated_texture
            THEN [acc EXCEPT !.faces[d] = ColorFace(face_texture.color),
                             !.colors = @ \cup {face_texture.color}]
            ELSE IF face_texture.kind = "texture"
            THEN [acc EXCEPT !.faces[d] = TexturedFace(@, face, n2, v_local, face_texture),
                             !.textures = Append(@, [path |-> face_texture.path,
                                                     size |-> face_texture.size])]
            ELSE acc
      IN FaceLoop(polygons, slots, rot, v_local, export_generated_texture, i + 1, next)

GenerateFaces(polygons, slots, rot, v_local, export_generated_texture) ==
    Strict(LAMBDA p : FaceLoop(p[1], slots, p[2], v_local, export_generated_texture, 1,
                    [faces |-> [d \in {DIRECTIONS[k] : k \in 1..6} |-> InitialFace],
                     textures |-> <<>>, colors |-> {}]),
           <<ProcessedPolygons(polygons), rot>>)

----------------------------------------------------------------------------
(* generate_attach_point and generate_element *)

\* what a call gives back: at most one element (none: None), the textures
\* put into model_textures, in order, and the colors put into model_colors
Nothing == [elems |-> <<>>, textures |-> <<>>, colors |-> {}]

\* the arguments of a root call: no parent
RootContext(arm, hierarchy) ==
    [armature |-> arm, bone_hierarchy |-> hierarchy,
     has_parent_matrix_world |-> FALSE, parent_matrix_world |-> Mat4(Identity3, Vec0),
     parent_cube_origin |-> Vec0, parent_rotation_origin |-> Vec0,
     has_parent_rotation_90deg |-> FALSE, parent_rotation_90deg |-> Identity3,
     export_generated_texture |-> TRUE]

VMin(a, b) ==
    Strict(LAMBDA p : <<IF p[1][1] <= p[2][1] THEN p[1][1] ELSE p[2][1],
                        IF p[1][2] <= p[2][2] THEN p[1][2] ELSE p[2][2],
                        IF p[1][3] <= p[2][3] THEN p[1][3] ELSE p[2][3]>>,
           <<a, b>>)

VMax(a, b) ==
    Strict(LAMBDA p : <<IF p[1][1] >= p[2][1] THEN p[1][1] ELSE p[2][1],
                        IF p[1][2] >= p[2][2] THEN p[1][2] ELSE p[2][2],
                        IF p[1][3] >= p[2][3] THEN p[1][3] ELSE p[2][3]>>,
           <<a, b>>)

\* np.amin(v_local, axis=1) and np.amax(v_local, axis=1)
RECURSIVE AMinOf(_)
AMinOf(vs) == IF Len(vs) = 1 THEN vs[1] ELSE VMin(vs[1], AMinOf(Tail(vs)))

AMin(v_local) == Strict(AMinOf, v_local)

RECURSIVE AMaxOf(_)
AMaxOf(vs) == IF Len(vs) = 1 THEN vs[1] ELSE VMax(vs[1], AMaxOf(Tail(vs)))

AMax(v_local) == Strict(AMaxOf, v_local)

RotationOriginSwapped(origin, parent_cube_origin, parent_rotation_origin) ==
    VAdd(VSub(parent_cube_origin, parent_rotation_origin), origin)

\* rotation_origin = origin - parent_cube_origin + parent_rotation_origin
RotationOrigin(origin, parent_cube_origin, parent_rotation_origin) ==
    VAdd(VSub(origin, parent_cube_origin), parent_rotation_origin)

StartsWith(s, prefix) ==
    Len(s) >= Len(prefix) /\ SubSeq(s, 1, Len(prefix)) = prefix

\* s[n:]
SliceFrom(s, n) == SubSeq(s, n + 1, Len(s))

\* lines 838-845: the origin and rotation of an attach point
AttachPlacement(sc, o, parent, ctx) ==
    IF ctx.armature /\ ObjParentBone(sc, o) # <<>>
    THEN Strict(LAMBDA mat_loc : [origin |-> mat_loc.t,
                                  obj_rotation |-> MatToEuler(mat_loc.R)],
                InvertedMul(ObjMatrixWorld(sc, parent), ObjMatrixWorld(sc, o)))
    ELSE [origin |-> ObjLocation(o), obj_rotation |-> ObjRotation(sc, o)]

\* lines 850-854 and 453-458: the parent's 90 degree rotations applied to
\* a rotation, an origin and vertices
ApplyParent90(ctx, obj_rotation, origin, v_local) ==
    IF ctx.has_parent_rotation_90deg
    THEN [obj_rotation |-> RotateAxisOf(ctx.parent_rotation_90deg, obj_rotation),
          origin |-> MatVec(ctx.parent_rotation_90deg, origin),
          v_local |-> Strict(LAMBDA v : [i \in DOMAIN v |->
                                           MatVec(ctx.parent_rotation_90deg, v[i])],
                             v_local)]
    ELSE [obj_rotation |-> obj_rotation, origin |-> origin, v_local |-> v_local]

\* lines 860-870: the rotation left after the 90 degree steps are taken out
AttachRotation(red, obj_rotation) ==
    IF red.rotation_90deg # <<>>
    THEN RotateAxisOf(EulerToMatrix(At(red.rotation_90deg, 1)), red.residual_rotation)
    ELSE obj_rotation

generate_attach_point(sc, o, parent, ctx) ==
    IF ~StartsWith(ObjName(sc, o), S_attach_) THEN <<>>
    ELSE
      Strict(LAMBDA p :
        Strict(LAMBDA q :
          << [obj |-> o, code |-> SliceFrom(ObjName(sc, o), 7),
              pos |-> RotationOrigin(to_y_up(q.origin), ctx.parent_cube_origin,
                                     ctx.parent_rotation_origin),
              rotation |-> to_vintagestory_rotation(
                              AttachRotation(get_reduced_rotation(q.obj_rotation),
                                             q.obj_rotation))] >>,
          ApplyParent90(ctx, p.obj_rotation, p.origin, <<>>)),
        AttachPlacement(sc, o, parent, ctx))

NotCuboidNever(sc, o) == FALSE

\* num_vertices != 8
NotCuboid(sc, o) == Len(ObjVertices(sc, o)) # 8

\* the results of calls in turn put together: the elements made, the
\* textures met and the colors met, after those of first
RECURSIVE MergeResults(_, _)
MergeResults(first, rs) ==
    IF rs = <<>> THEN first
    ELSE MergeResults([elems |-> first.elems \o Head(rs).elems,
                       textures |-> first.textures \o Head(rs).textures,
                       colors |-> first.colors \cup Head(rs).colors],
                      Tail(rs))

RECURSIVE generate_element(_, _, _)
RECURSIVE ElementOf(_, _, _)

\* generate_element for each object of kids in turn, with arguments ctx,
\* starting from the textures and colors of first
GenerateChildren(sc, kids, ctx, first) ==
    Strict(LAMBDA ks :
             Strict(LAMBDA rs : Strict(LAMBDA f : MergeResults(f, rs), first),
                    [i \in 1..Len(ks) |-> generate_element(sc, ks[i], ctx)]),
           kids)

generate_element(sc, o, ctx) == Strict(LAMBDA c : ElementOf(sc, o, c), ctx)

\* lines 420 and 743-745: the bone the object stands for (<<>>: none): its
\* parent_bone, when that is a bone of the armature with a node in
\* bone_hierarchy whose main has the name of the object
MainBone(sc, o) ==
    Strict(LAMBDA bh :
             IF /\ ObjParentBone(sc, o) # <<>>
                /\ IsBone(sc, ObjParentBone(sc, o))
                /\ ObjParentBone(sc, o) \in DOMAIN bh
                /\ ObjName(sc, bh[ObjParentBone(sc, o)].main) = ObjName(sc, o)
             THEN <<At(Bones(sc), BoneIndex(sc, ObjParentBone(sc, o)))>>
             ELSE <<>>,
           get_bone_hierarchy(sc, 1))

\* lines 423-427: the location of a bone relative to its parent bone
BoneLocation(sc, bone) ==
    IF bone.parent # <<>>
    THEN VSub(bone.head_local, At(Bones(sc), BoneIndex(sc, bone.parent)).head_local)
    ELSE bone.head_local

\* lines 438-441: origin and rotation out of the world matrices
RelativePlacement(ctx, matrix_world, offset, is_main) ==
    Strict(LAMBDA mat_local :
      Strict(LAMBDA obj_rotation :
               [matrix_world |-> matrix_world, origin |-> mat_local.t,
                obj_rotation |-> obj_rotation,
                origin_bone_offset |->
                   IF is_main
                   THEN MatVec(Transpose(EulerToMatrix(obj_rotation)), offset)
                   ELSE offset],
             MatToEuler(mat_local.R)),
      InvertedMul(ctx.parent_matrix_world, matrix_world))

\* lines 411-448: origin, rotation, world matrix and bone offset; bone is
\* <<>> unless the object is the main object of its bone in an armature
Placement(sc, o, ctx, bone) ==
    Strict(LAMBDA p :
             IF ctx.has_parent_matrix_world
             THEN RelativePlacement(ctx, p.matrix_world, p.origin_bone_offset,
                                    bone # <<>>)
             ELSE p,
           IF bone # <<>>
           THEN [matrix_world |-> Mat4(ObjMatrixWorld(sc, o).R, bone[1].head_local),
                 origin |-> BoneLocation(sc, bone[1]),
                 obj_rotation |-> ObjRotation(sc, o),
                 origin_bone_offset |-> VSub(ObjLocation(o), bone[1].head_local)]
           ELSE [matrix_world |-> ObjMatrixWorld(sc, o),
                 origin |-> ObjLocation(o),
                 obj_rotation |-> ObjRotation(sc, o),
                 origin_bone_offset |-> Vec0])

\* lines 464-480: the object's own 90 degree rotations, red being
\* get_reduced_rotation(q.obj_rotation)
ApplyOwn90(ctx, q, red) ==
    IF red.rotation_90deg = <<>>
    THEN [has_90 |-> FALSE, mat_rotate_90deg |-> Identity3,
          obj_rotation |-> q.obj_rotation, v_local |-> q.v_local]
    ELSE Strict(LAMBDA m90 :
                  IF ctx.armature
                  THEN [has_90 |-> TRUE, mat_rotate_90deg |-> m90,
                        obj_rotation |-> q.obj_rotation, v_local |-> q.v_local]
                  ELSE [has_90 |-> TRUE, mat_rotate_90deg |-> m90,
                        obj_rotation |-> RotateAxisOf(m90, red.residual_rotation),
                        v_local |-> Strict(LAMBDA v : [i \in DOMAIN v |->
                                                         MatVec(m90, v[i])],
                                           q.v_local)],
                EulerToMatrix(At(red.rotation_90deg, 1)))

\* lines 484-498: the cuboid in VintageStory space
Cuboid(ctx, p, q, r) ==
    Strict(LAMBDA rotation_origin :
             [origin |-> to_y_up(q.origin),
              rotation_vs |-> to_vintagestory_rotation(r.obj_rotation),
              rotation_origin |-> rotation_origin,
              v_from |-> VAdd(VAdd(to_y_up(AMin(r.v_local)), rotation_origin),
                              to_y_up(p.origin_bone_offset)),
              v_to |-> VAdd(VAdd(to_y_up(AMax(r.v_local)), rotation_origin),
                            to_y_up(p.origin_bone_offset))],
           RotationOrigin(to_y_up(q.origin), ctx.parent_cube_origin,
                          ctx.parent_rotation_origin))

\* lines 701-705 and the arguments of the child calls
ChildContext(ctx, p, r, cube) ==
    [armature |-> FALSE, bone_hierarchy |-> FALSE,
     has_parent_matrix_world |-> TRUE, parent_matrix_world |-> p.matrix_world,
     parent_cube_origin |-> cube.v_from,
     parent_rotation_origin |-> cube.rotation_origin,
     has_parent_rotation_90deg |-> r.has_90 \/ ctx.has_parent_rotation_90deg,
     parent_rotation_90deg |->
        IF r.has_90
        THEN (IF ctx.has_parent_rotation_90deg
              THEN MatMul(r.mat_rotate_90deg, ctx.parent_rotation_90deg)
              ELSE r.mat_rotate_90deg)
        ELSE ctx.parent_rotation_90deg,
     export_generated_texture |-> TRUE]

\* lines 708-720: the attach points of the empties among obj.children
RECURSIVE AttachPoints(_, _, _, _)
AttachPoints(sc, o, es, ctx) ==
    IF es = <<>> THEN <<>>
    ELSE generate_attach_point(sc, Head(es), o, ctx) \o AttachPoints(sc, o, Tail(es), ctx)

BoneObjChildrenSameBone(sc, bone) ==
    Tail(get_bone_hierarchy(sc, 1)[bone.name].children)

\* lines 741-758: the objects the bone hierarchy adds below a main object:
\* the other objects of its bone, then the mains of the child bones
BoneObjChildren(sc, bone) ==
    Strict(LAMBDA bh :
             Tail(bh[bone.name].children)
                \o Strict(LAMBDA bs : [k \in 1..Len(bs) |-> bh[bs[k].name].main],
                          SelectSeq(BoneChildren(sc, bone.name),
                                    LAMBDA b : b.name \in DOMAIN bh)),
           get_bone_hierarchy(sc, 1))

\* lines 708-776: the children of the element, with the textures and colors
\* met in the subtree after those of the element's own faces f
ElementChildren(sc, o, ctx, bone, child_ctx, f) ==
    Strict(LAMBDA direct :
             IF ctx.bone_hierarchy /\ bone # <<>>
             THEN GenerateChildren(sc, BoneObjChildren(sc, bone[1]),
                                   [child_ctx EXCEPT !.armature = ctx.armature,
                                                     !.bone_hierarchy = TRUE],
                                   direct)
             ELSE direct,
           GenerateChildren(sc,
               SelectSeq(ObjChildren(sc, o), LAMBDA c : ObjType(sc, c) # "EMPTY"),
               child_ctx,
               [elems |-> <<>>, textures |-> f.textures, colors |-> f.colors]))

\* lines 526-811: faces, children and the element itself
AssembleElement(sc, o, ctx, bone, r, cube, child_ctx) ==
    Strict(LAMBDA f :
      Strict(LAMBDA all :
               [elems |->
                  << [obj |-> o,
                      name |-> IF ctx.bone_hierarchy /\ bone # <<>>
                               THEN bone[1].name ELSE ObjName(sc, o),
                      from |-> cube.v_from, to |-> cube.v_to,
                      rotationOrigin |-> cube.rotation_origin,
                      rotation |-> cube.rotation_vs, group |-> ObjCollection(o),
                      faces |-> f.faces, children |-> all.elems,
                      attachmentpoints |->
                         AttachPoints(sc, o,
                             SelectSeq(ObjChildren(sc, o),
                                       LAMBDA c : ObjType(sc, c) = "EMPTY"),
                             [child_ctx EXCEPT !.armature = ctx.armature]),
                      origin |-> cube.origin] >>,
                textures |-> all.textures,
                colors |-> all.colors],
             ElementChildren(sc, o, ctx, bone, child_ctx, f)),
      GenerateFaces(ObjPolygons(sc, o), ObjMaterialSlots(o),
                    (IF ctx.has_parent_rotation_90deg
                     THEN <<ctx.parent_rotation_90deg>> ELSE <<>>)
                       \o (IF r.has_90 THEN <<r.mat_rotate_90deg>> ELSE <<>>),
                    r.v_local, ctx.export_generated_texture))

\* The element of object o.  An element carries, besides the output keys,
\* obj and origin: the object it was made from and its axis-permuted origin.
\*   bone  the bone the object stands for; in lines 418-431 only under an
\*         armature, in lines 743-747 only under a bone hierarchy
\*   p     origin, rotation and matrix of lines 411-448
\*   q     after the parent's 90 degree rotations, lines 453-458
\*   r     after the object's own 90 degree rotations, lines 464-480
ElementOf(sc, o, ctx) ==
    IF ObjType(sc, o) # "MESH" THEN Nothing
    ELSE IF NotCuboid(sc, o) THEN Nothing
    ELSE
      Strict(LAMBDA bone :
        Strict(LAMBDA p :
          Strict(LAMBDA q :
            Strict(LAMBDA r :
              Strict(LAMBDA cube :
                       AssembleElement(sc, o, ctx, bone, r, cube,
                                       ChildContext(ctx, p, r, cube)),
                     Cuboid(ctx, p, q, r)),
              ApplyOwn90(ctx, q, get_reduced_rotation(q.obj_rotation))),
            ApplyParent90(ctx, p.obj_rotation, p.origin, ObjVertices(sc, o))),
          Placement(sc, o, ctx, IF ctx.armature THEN bone ELSE <<>>)),
        MainBone(sc, o))

----------------------------------------------------------------------------
(* save_all_animations *)
(* bpy, as far as the function reads it:                                   *)
(*   armatures     the names of bpy.data.armatures                         *)
(*   object_names  the names of bpy.data.objects                           *)
(*   pose_bones    bone name -> rotation_mode, for obj_armature.pose.bones *)
(*   actions       bpy.data.actions: name, fcurves (data_path,             *)
(*                 array_index, frames: the frames of the keyframe points) *)
(*                 and pose_markers (name, frame)                          *)

ROTATION_MODE_TO_FCURVE_PROPERTY ==
    [m \in {"QUATERNION", "XYZ", "XZY", "YXZ", "YZX", "ZXY", "ZYX", "AXIS_ANGLE"} |->
        IF m = "QUATERNION" THEN S_rotation_quaternion ELSE S_rotation_euler]

\* data_path.find(ch, start): the first index >= start (from 0), or -1
Find(s, ch, start) ==
    LET hits == {i \in start..(Len(s) - 1) : s[i + 1] = ch}
    IN IF hits = {} THEN -1 ELSE CHOOSE i \in hits : \A j \in hits : i <= j

\* s[a:b] for 0 <= a and 0 <= b
Slice(s, a, b) == SubSeq(s, a + 1, IF b > Len(s) THEN Len(s) ELSE b)

\* the index of the '["' that follows pose.bones
BoneNameStart == 12

\* the bone name read out of pose.bones["name"].property
PathBoneName(data_path) ==
    Slice(data_path, BoneNameStart, Find(data_path, S_close[1], 12) - 1)

\* the property read out of pose.bones["name"].property
PathProperty(data_path) == SliceFrom(data_path, Find(data_path, S_close[1], 12) + 2)

\* The AnimationAdapter of animation.py before any curve is added.
NewAdapter == [rotation_mode |-> <<>>, fcurves |-> <<>>]

\* animation_adapter.set_bone_rotation_mode, then add_fcurve
AdapterAdd(adapter, bone_name, property, fcu) ==
    [rotation_mode |-> (bone_name :> property) @@ adapter.rotation_mode,
     fcurves |-> Append(adapter.fcurves, fcu)]

RECURSIVE SortedFrames(_)
SortedFrames(fs) ==
    IF fs = {} THEN <<>>
    ELSE LET m == CHOOSE f \in fs : \A g \in fs : f <= g
         IN <<m>> \o SortedFrames(fs \ {m})

\* animation_adapter.create_vintage_story_keyframes(): one keyframe per
\* frame that holds a point of an added curve, in frame order
create_vintage_story_keyframes(adapter) ==
    Strict(LAMBDA fcurves :
             Strict(LAMBDA order :
                      [k \in 1..Len(order) |->
                         [frame |-> order[k],
                          paths |-> {fcurves[i].data_path :
                                       i \in {j \in 1..Len(fcurves) :
                                                order[k] \in fcurves[j].frames}}]],
                    SortedFrames(UNION {fcurves[i].frames : i \in 1..Len(fcurves)})),
           adapter.fcurves)

\* bones[bone_name] raises KeyError for a name that is no pose bone
BoneLookupFails(pose_bones, bone_name) == bone_name \notin DOMAIN pose_bones

\* the loop over the fcurves of an action: the adapter with the curves
\* added, or raised = TRUE when bones[bone_name] raised
RECURSIVE FcurveLoop(_, _, _, _)
FcurveLoop(fcurves, pose_bones, i, adapter) ==
    IF i > Len(fcurves) THEN [raised |-> FALSE, adapter |-> adapter]
    ELSE
      LET fcu == fcurves[i]
          data_path == fcu.data_path
          skip == FcurveLoop(fcurves, pose_bones, i + 1, adapter)
      IN IF ~StartsWith(data_path, S_pose_bones) THEN skip
         ELSE
           LET bone_name == PathBoneName(data_path)
               property_name == PathProperty(data_path)
           IN IF BoneLookupFails(pose_bones, bone_name)
              THEN [raised |-> TRUE, adapter |-> adapter]
              ELSE
                LET rotation_mode == pose_bones[bone_name]
                    expected == ROTATION_MODE_TO_FCURVE_PROPERTY[rotation_mode]
                IN IF property_name # S_location /\ expected # property_name
                   THEN skip
                   ELSE FcurveLoop(fcurves, pose_bones, i + 1,
                                   AdapterAdd(adapter, bone_name, expected, fcu))

\* the loop over action.pose_markers; quantity_frames is <<>> for None
RECURSIVE MarkerLoop(_, _, _)
MarkerLoop(markers, i, acc) ==
    IF i > Len(markers) THEN acc
    ELSE
      LET marker == markers[i]
          next ==
            IF StartsWith(marker.name, S_onActivityStopped_)
            THEN [acc EXCEPT !.on_activity_stopped = SliceFrom(marker.name, 18)]
            ELSE IF StartsWith(marker.name, S_onAnimationEnd_)
            THEN [acc EXCEPT !.quantity_frames = <<marker.frame + 1>>,
                             !.on_animation_end = SliceFrom(marker.name, 15)]
            ELSE acc
      IN MarkerLoop(markers, i + 1, next)

QuantityFramesNoPlusOne(marked, keyframes) ==
    IF marked # <<>> THEN At(marked, 1)
    ELSE IF Len(keyframes) > 0 THEN At(keyframes, Len(keyframes)).frame
    ELSE 0

\* quantity_frames: from the marker, else last keyframe + 1, else 0
QuantityFrames(marked, keyframes) ==
    IF marked # <<>> THEN At(marked, 1)
    ELSE IF Len(keyframes) > 0 THEN At(keyframes, Len(keyframes)).frame + 1
    ELSE 0

\* the body of the loop over bpy.data.actions for one action with fcurves
ExportAction(action, pose_bones) ==
    LET loop == FcurveLoop(action.fcurves, pose_bones, 1, NewAdapter)
        keyframes == create_vintage_story_keyframes(loop.adapter)
        meta == MarkerLoop(action.pose_markers, 1,
                    [quantity_frames |-> <<>>, on_activity_stopped |-> S_Stop,
                     on_animation_end |-> S_Stop])
    IN [raised |-> loop.raised,
        export |->
          [name |-> action.name, code |-> action.name,
           quantityframes |->
              IF loop.raised THEN 0 ELSE QuantityFrames(meta.quantity_frames, keyframes),
           onActivityStopped |-> meta.on_activity_stopped,
           onAnimationEnd |-> meta.on_animation_end,
           keyframes |-> IF loop.raised THEN <<>> ELSE keyframes]]

RECURSIVE ActionLoop(_, _, _, _)
ActionLoop(actions, pose_bones, i, acc) ==
    IF i > Len(actions) THEN [raised |-> FALSE, animations |-> acc]
    ELSE IF Len(actions[i].fcurves) = 0
    THEN ActionLoop(actions, pose_bones, i + 1, acc)
    ELSE LET r == ExportAction(actions[i], pose_bones)
         IN IF r.raised THEN [raised |-> TRUE, animations |-> acc]
            ELSE ActionLoop(actions, pose_bones, i + 1, Append(acc, r.export))

ArmatureObjectAlwaysFound(b) == TRUE

\* bpy.data.objects[armature.name] raises when no object has the name
ArmatureObjectFound(b) == b.armatures[1] \in b.object_names

\* raised: a KeyError left the function; animations: the list returned
save_all_animations(b) ==
    IF Len(b.armatures) = 0 THEN [raised |-> FALSE, animations |-> <<>>]
    ELSE IF ~ArmatureObjectFound(b) THEN [raised |-> FALSE, animations |-> <<>>]
    ELSE ActionLoop(b.actions, b.pose_bones, 1, <<>>)

----------------------------------------------------------------------------
(* save_objects, phase by phase *)

Digits == <<"0", "1", "2", "3", "4", "5", "6", "7", "8", "9">>

\* str(n) for n >= 0
RECURSIVE Str(_)
Str(n) == IF n < 10 THEN <<Digits[n + 1]>>
          ELSE Str(n \div 10) \o <<Digits[(n % 10) + 1]>>

\* posixpath.join(a, b)
PosixJoin(a, b) ==
    IF b # <<>> /\ b[1] = "/" THEN b
    ELSE IF a = <<>> \/ a[Len(a)] = "/" THEN a \o b
    ELSE a \o <<"/">> \o b

\* s.replace("\\", "/")
ReplaceBackslash(s) == [i \in 1..Len(s) |-> IF s[i] = "\\" THEN "/" ELSE s[i]]

\* the largest index (from 1) holding ch, 0 when there is none
LastIndexOf(s, ch) ==
    LET hits == {i \in 1..Len(s) : s[i] = ch}
    IN IF hits = {} THEN 0 ELSE CHOOSE i \in hits : \A j \in hits : j <= i

\* os.path.split(s)[1]
PathTail(s) == SubSeq(s, LastIndexOf(s, "/") + 1, Len(s))

\* os.path.splitext(s)[0]: cut at the last dot that has a character other
\* than a dot before it
SplitExtRoot(s) ==
    LET dot == LastIndexOf(s, ".")
    IN IF dot > 1 /\ \E i \in 1..(dot - 1) : s[i] # "." THEN SubSeq(s, 1, dot - 1)
       ELSE s

\* the model name of a texture path: "//folder\tex.png" -> "tex"
TextureFilename(texture_path) ==
    LET a == IF Len(texture_path) >= 2 /\ SubSeq(texture_path, 1, 2) = <<"/", "/">>
             THEN SliceFrom(texture_path, 2) ELSE texture_path
    IN SplitExtRoot(PathTail(ReplaceBackslash(a)))

\* filter_root_objects on all objects of the scene
filter_root_objects(sc) == SelectSeq([i \in ObjIds |-> i], LAMBDA o : ObjParent(sc, o) = 0)

\* filter_root_objects(armature.data.bones)
RootBones(sc) == SelectSeq(Bones(sc), LAMBDA b : b.parent = <<>>)

\* the armature among the objects (0: none)
FirstArmature(sc, objs) ==
    LET hits == {i \in 1..Len(objs) : ObjType(sc, objs[i]) = "ARMATURE"}
    IN IF hits = {} THEN 0 ELSE objs[CHOOSE i \in hits : \A j \in hits : i <= j]

\* bone_hierarchy[bone.name] raises KeyError for a root bone without a node
RootBoneLookupFails(sc, a) ==
    \E i \in 1..Len(RootBones(sc)) :
        RootBones(sc)[i].name \notin DOMAIN get_bone_hierarchy(sc, a)

RECURSIVE DedupTexturesNewestFirst(_, _)
DedupTexturesNewestFirst(log, acc) ==
    IF log = <<>> THEN acc
    ELSE IF \E i \in 1..Len(acc) : acc[i].path = Head(log).path
    THEN DedupTexturesNewestFirst(Tail(log), acc)
    ELSE DedupTexturesNewestFirst(Tail(log), <<Head(log)>> \o acc)

\* the dict model_textures: the paths in first-insertion order
RECURSIVE DedupTextures(_, _)
DedupTextures(log, acc) ==
    IF log = <<>> THEN acc
    ELSE IF \E i \in 1..Len(acc) : acc[i].path = Head(log).path
    THEN DedupTextures(Tail(log), acc)
    ELSE DedupTextures(Tail(log), Append(acc, Head(log)))

\* the loop over export_objects: root elements, textures and colors
ParseGeometryOf(sc, arm, objs) ==
    GenerateChildren(sc, objs, RootContext(arm # 0, arm # 0), Nothing)

\* The order in which a set of color tuples is iterated is fixed by the
\* hashes of the tuples; the model iterates in this fixed rank.
ColorRank == <<"black", "blue", "green", "red", "white">>

ColorSeq(cs) == SelectSeq(ColorRank, LAMBDA c : c \in cs)

FilePath == <<"/", "o", "u", "t", "/", "m", "o", "d", "e", "l", ".", "j", "s", "o", "n">>

S_colors == <<"c", "o", "l", "o", "r", "s">>

S_item == <<"i", "t", "e", "m">>

\* the options of save_objects; translate_origin is <<>> for None.
\* decimal_precision is -1 throughout, so no number is rounded.
DefaultOptions ==
    [translate_origin |-> <<>>, generate_texture |-> TRUE,
     use_only_exported_object_colors |-> FALSE, texture_folder |-> <<>>,
     color_texture_filename |-> <<>>, minify |-> FALSE,
     export_armature |-> TRUE, export_animations |-> TRUE]

OptionSet ==
    { DefaultOptions,
      [DefaultOptions EXCEPT !.translate_origin = << <<1, 2, 3>> >>,
                             !.texture_folder = S_item],
      [DefaultOptions EXCEPT !.use_only_exported_object_colors = TRUE,
                             !.color_texture_filename = S_colors],
      [DefaultOptions EXCEPT !.generate_texture = FALSE],
      [DefaultOptions EXCEPT !.generate_texture = FALSE,
                             !.color_texture_filename = S_colors,
                             !.minify = TRUE],
      [DefaultOptions EXCEPT !.export_armature = FALSE],
      [DefaultOptions EXCEPT !.export_animations = FALSE] }

ModelJsonStub ==
    [keys |-> {"textureWidth", "textureHeight", "textures", "textureSizes"},
     textureWidth |-> 16, textureHeight |-> 16,
     textures |-> <<>>, textureSizes |-> <<>>,
     elements |-> <<>>, groups |-> <<>>, animations |-> <<>>]

\* one pass of final_element_processing meets a color tuple
RECURSIVE HasTupleFace(_)
HasTupleFace(elems) ==
    \E i \in 1..Len(elems) :
        \/ \E d \in DOMAIN elems[i].faces : elems[i].faces[d].kind = "tuple"
        \/ HasTupleFace(elems[i].children)

\* the face final_element_processing leaves in place of face f
FinalFace(f, tex, refs) ==
    IF f.kind = "tuple"
    THEN [kind |-> "dict", texture |-> S_hash0,
          uv |-> IF f.color \in DOMAIN tex.color_tex_uv_map
                 THEN tex.color_tex_uv_map[f.color]
                 ELSE tex.default_color_uv,
          uv_div |-> tex.tex_size, autoUv |-> FALSE,
          color |-> "", rotation |-> <<>>, generated |-> TRUE]
    ELSE IF f.texture \in DOMAIN refs
    THEN [f EXCEPT !.texture = refs[f.texture]]
    ELSE f

\* final_element_processing(element) for each element of elems
RECURSIVE FinalElements(_, _, _)
FinalElements(elems, tex, refs) ==
    [i \in 1..Len(elems) |->
        [name |-> elems[i].name, obj |-> elems[i].obj,
         from |-> elems[i].from, to |-> elems[i].to,
         rotationOrigin |-> elems[i].rotationOrigin,
         rotation |-> elems[i].rotation, group |-> elems[i].group,
         faces |-> [d \in DOMAIN elems[i].faces |->
                      FinalFace(elems[i].faces[d], tex, refs)],
         children |-> FinalElements(elems[i].children, tex, refs),
         attachmentpoints |-> elems[i].attachmentpoints,
         origin |-> elems[i].origin]]

\* bpy as save_all_animations reads it in the scene sc
PoseBones == (S_body :> "QUATERNION") @@ (S_arm :> "XYZ") @@ (S_hand :> "QUATERNION")

BpyOf(sc, actions) ==
    [armatures |-> IF sc.kind = "armature" THEN <<sc.data_name>> ELSE <<>>,
     object_names |-> {ObjName(sc, o) : o \in ObjIds},
     pose_bones |-> PoseBones,
     actions |-> actions]

\* bpy.data.actions of the model; f is the frame of the last point
Walk(f) ==
    [name |-> S_walk,
     fcurves |-> << [data_path |-> P_arm_location, array_index |-> 0, frames |-> {0, f}],
                    [data_path |-> P_arm_rotation_euler, array_index |-> 2,
                     frames |-> {0, f}],
                    [data_path |-> P_arm_rotation_quaternion, array_index |-> 0,
                     frames |-> {f + 1}] >>,
     pose_markers |-> <<>>]

\* an action without fcurves
Idle == [name |-> S_idle, fcurves |-> <<>>, pose_markers |-> <<>>]

\* an action that animates the object, not a bone
Rest ==
    [name |-> S_rest,
     fcurves |-> << [data_path |-> P_object_location, array_index |-> 1, frames |-> {3}] >>,
     pose_markers |-> <<>>]

\* an action closed by a marker at frame f
Wave(f) ==
    [name |-> S_wave,
     fcurves |-> << [data_path |-> P_body_rotation_quaternion, array_index |-> 0,
                     frames |-> {0, 2}] >>,
     pose_markers |-> << [name |-> S_onAnimationEnd_Hold, frame |-> f] >>]

\* an action with three markers
Nod ==
    [name |-> S_nod,
     fcurves |-> << [data_path |-> P_body_location, array_index |-> 0, frames |-> {1}] >>,
     pose_markers |-> << [name |-> S_onActivityStopped_Rewind, frame |-> 1],
                         [name |-> S_onAnimationEnd_Hold, frame |-> 1],
                         [name |-> S_marker, frame |-> 7],
                         [name |-> S_onAnimationEnd_Repeat, frame |-> 4] >>]

\* an action with a curve of a bone the armature does not have
Slide ==
    [name |-> S_slide,
     fcurves |-> << [data_path |-> P_body_location, array_index |-> 0, frames |-> {2}],
                    [data_path |-> P_ghost_location, array_index |-> 0, frames |-> {1}],
                    [data_path |-> P_body_location, array_index |-> 1, frames |-> {5}] >>,
     pose_markers |-> <<>>]

ActionTemplates ==
    {Idle, Rest, Nod, Slide} \cup {Walk(f) : f \in 1..MaxFrame}
        \cup {Wave(f) : f \in 0..MaxFrame}

\* the save_objects runs: the options and bpy.data.actions
Runs ==
    {<<o, <<Walk(1), Nod>> >> : o \in OptionSet}
        \cup {<<DefaultOptions, <<>> >>, <<DefaultOptions, <<Slide>> >>}

BpyIdle ==
    bpy = [armatures |-> <<>>, object_names |-> {}, pose_bones |-> <<>>,
           actions |-> <<>>]

AnimIdle ==
    /\ returned = [raised |-> FALSE, animations |-> <<>>]
    /\ pcAnim = "idle"

ExportIdle ==
    /\ scene = [kind |-> "none"]
    /\ options = DefaultOptions
    /\ pc = "idle"
    /\ err = ""
    /\ armature = 0
    /\ export_objects = <<>>
    /\ root_elements = <<>>
    /\ model_colors = [none |-> TRUE, set |-> {}]
    /\ model_textures = <<>>
    /\ color_tex = <<>>
    /\ texture_refs = <<>>
    /\ model_json = ModelJsonStub
    /\ file = <<>>

----------------------------------------------------------------------------
(* SpecRot: get_reduced_rotation on every Euler rotation of AngleSet *)

\* 10 degrees
TenDeg == (10 * HalfPi) \div 90

Offsets == {0, 1, -1, Beta, -Beta, Eps, -Eps, QuarterPi - 1, 1 - QuarterPi,
            TenDeg, -TenDeg}

AngleSet == {k * HalfPi + b : k \in (-MaxSteps)..MaxSteps, b \in Offsets}

NoResult == [residual_rotation |-> [x |-> 0, y |-> 0, z |-> 0],
             xsteps |-> 0, ysteps |-> 0, zsteps |-> 0,
             rotation_90deg |-> <<>>]

RotIdle ==
    /\ rotation = [x |-> 0, y |-> 0, z |-> 0]
    /\ reduced = NoResult
    /\ pcRot = "idle"

TexIdle ==
    /\ colors = <<>>
    /\ atlas = NoAtlas
    /\ pcTex = "idle"

UVIdle ==
    /\ uvIn = <<>>
    /\ uvOut = <<>>
    /\ pcUV = "idle"

ClampIdle ==
    /\ clampIn = <<>>
    /\ clampR = <<>>
    /\ pcClamp = "idle"

AxisIdle ==
    /\ axisIn = <<>>
    /\ axisOut = <<>>
    /\ axisCalls = 0

FaceIdle ==
    /\ faceIn = <<>>
    /\ faceOut = <<>>
    /\ pcFace = "idle"

PureIdle == UVIdle /\ ClampIdle /\ AxisIdle /\ FaceIdle

InitRot ==
    /\ rotation \in [x : AngleSet, y : AngleSet, z : AngleSet]
    /\ reduced = NoResult
    /\ pcRot = "call"
    /\ TexIdle
    /\ PureIdle
    /\ BpyIdle
    /\ AnimIdle
    /\ ExportIdle

CallGetReducedRotation ==
    /\ pcRot = "call"
    /\ reduced' = get_reduced_rotation(rotation)
    /\ pcRot' = "done"
    /\ UNCHANGED <<rotation, texVars, bpy, animVars, exportVars, pureVars>>

NextRot == CallGetReducedRotation

SpecRot == InitRot /\ [][NextRot]_vars

----------------------------------------------------------------------------
(* SpecTex: create_color_texture on N = 0..MaxColors distinct colors *)

InitTex ==
    /\ \E n \in 0..MaxColors : colors = [i \in 1..n |-> i]
    /\ atlas = NoAtlas
    /\ pcTex = "call"
    /\ RotIdle
    /\ PureIdle
    /\ BpyIdle
    /\ AnimIdle
    /\ ExportIdle

CallCreateColorTexture ==
    /\ pcTex = "call"
    /\ atlas' = create_color_texture(colors)
    /\ pcTex' = "done"
    /\ UNCHANGED <<colors, rotVars, bpy, animVars, exportVars, pureVars>>

NextTex == CallCreateColorTexture

SpecTex == InitTex /\ [][NextTex]_vars

----------------------------------------------------------------------------
(* Specification of clamp_rotation, one step per loop test and per loop
   body *)

MaxTurns == 2

\* whole degrees around the multiples of 360, half degrees, and float64
\* values at and beyond 2^63
ClampValues ==
    {[m |-> k * 360 + d, e |-> 0] : k \in (-MaxTurns)..MaxTurns, d \in {-1, 0, 1}}
      \cup {[m |-> 721, e |-> -1], [m |-> -1445, e |-> -1]}
      \cup {[m |-> 1, e |-> 63], [m |-> -3, e |-> 62]}

ClampInputs ==
    {<<x, y, z>> : x \in ClampValues,
                   y \in {[m |-> 90, e |-> 0], [m |-> 725, e |-> 0]},
                   z \in {[m |-> -45, e |-> 0], [m |-> -1085, e |-> 0]}}
      \cup {<<[m |-> 0, e |-> 0], y, z>> :
               y \in {[m |-> 361, e |-> 0], [m |-> 1, e |-> 63]},
               z \in {[m |-> 1085, e |-> 0], [m |-> -1, e |-> 63]}}

InitClamp ==
    /\ clampIn \in ClampInputs
    /\ clampR = clampIn
    /\ pcClamp = "l141"
    /\ UVIdle
    /\ AxisIdle
    /\ FaceIdle
    /\ RotIdle
    /\ TexIdle
    /\ BpyIdle
    /\ AnimIdle
    /\ ExportIdle

\* a loop test holds: into the body
ClampLoopEnter ==
    /\ pcClamp \in DOMAIN ClampLoops
    /\ LoopCondition
    /\ pcClamp' = ClampLoops[pcClamp].body
    /\ UNCHANGED <<clampIn, clampR, uvVars, rotVars, texVars, bpy, animVars, exportVars,
                   axisVars, faceVars>>

\* r[k] -= 360.0, and back to the test
ClampSubtract ==
    /\ pcClamp \in {"l142", "l147", "l152"}
    /\ clampR' = [clampR EXCEPT ![ClampLoops[LoopOfBody].axis] = Sub360(@)]
    /\ pcClamp' = LoopOfBody
    /\ UNCHANGED <<clampIn, uvVars, rotVars, texVars, bpy, animVars, exportVars,
                   axisVars, faceVars>>

\* r[k] += 360.0, and back to the test
ClampAdd ==
    /\ pcClamp \in {"l144", "l149", "l154"}
    /\ clampR' = [clampR EXCEPT ![ClampLoops[LoopOfBody].axis] = Add360(@)]
    /\ pcClamp' = LoopOfBody
    /\ UNCHANGED <<clampIn, uvVars, rotVars, texVars, bpy, animVars, exportVars,
                   axisVars, faceVars>>

\* a loop test fails: on to the next loop
ClampLoopExit ==
    /\ pcClamp \in DOMAIN ClampLoops
    /\ ~LoopCondition
    /\ pcClamp' = ClampLoops[pcClamp].next
    /\ UNCHANGED <<clampIn, clampR, uvVars, rotVars, texVars, bpy, animVars, exportVars,
                   axisVars, faceVars>>

\* return r
ClampReturn ==
    /\ pcClamp = "l156"
    /\ pcClamp' = "done"
    /\ UNCHANGED <<clampIn, clampR, uvVars, rotVars, texVars, bpy, animVars, exportVars,
                   axisVars, faceVars>>

NextClamp ==
    ClampLoopEnter \/ ClampSubtract \/ ClampAdd \/ ClampLoopExit \/ ClampReturn

\* the interpreter keeps running the function
SpecClamp == InitClamp /\ [][NextClamp]_vars /\ WF_vars(NextClamp)

----------------------------------------------------------------------------
(* Specification of to_y_up: the function applied to a vector, and again
   to what it gave *)

MaxCoord == 2

MaxCalls == 3

AxisVectors == {<<x, y, z>> : x, y, z \in (-MaxCoord)..MaxCoord}

InitAxis ==
    /\ axisIn \in AxisVectors
    /\ axisOut = axisIn
    /\ axisCalls = 0
    /\ UVIdle
    /\ ClampIdle
    /\ FaceIdle
    /\ RotIdle
    /\ TexIdle
    /\ BpyIdle
    /\ AnimIdle
    /\ ExportIdle

CallToYUp ==
    /\ axisCalls < MaxCalls
    /\ axisOut' = to_y_up(axisOut)
    /\ axisCalls' = axisCalls + 1
    /\ UNCHANGED <<axisIn, uvVars, clampVars, rotVars, texVars, bpy, animVars, exportVars,
                   faceVars>>

NextAxis == CallToYUp

SpecAxis == InitAxis /\ [][NextAxis]_vars

----------------------------------------------------------------------------
(* Specification of the face loop on a box under 90 degree steps: the
   parent's step rotation and the object's own, each absent or made of
   quarter turns about X, Y and Z; the six polygons have six materials. *)

MaxQuarter == 2

\* rotation_90deg of get_reduced_rotation for the steps drawn: <<>> for None
StepRotations ==
    {<<>>} \cup {<<[x |-> i * HalfPi, y |-> j * HalfPi, z |-> k * HalfPi]>> :
                   i, j, k \in (1 - MaxQuarter)..MaxQuarter}

FaceColors == <<"red", "green", "blue", "white", "black", "grey">>

FaceSlots == [i \in 1..6 |-> Solid(FaceColors[i])]

\* the 90 degree matrices applied to a normal: the parent's, then the
\* object's own
FaceRotations(in) ==
    (IF in.parent # <<>> THEN <<EulerToMatrix(in.parent[1])>> ELSE <<>>)
       \o (IF in.own # <<>> THEN <<EulerToMatrix(in.own[1])>> ELSE <<>>)

InitFace ==
    /\ faceIn \in [parent : StepRotations, own : StepRotations]
    /\ faceOut = <<>>
    /\ pcFace = "call"
    /\ UVIdle
    /\ ClampIdle
    /\ AxisIdle
    /\ RotIdle
    /\ TexIdle
    /\ BpyIdle
    /\ AnimIdle
    /\ ExportIdle

CallGenerateFaces ==
    /\ pcFace = "call"
    /\ faceOut' = GenerateFaces(Polygons(<<0, 1, 2, 3, 4, 5>>, 0), FaceSlots,
                                FaceRotations(faceIn), BoxVertices(ObjBox(2)), TRUE).faces
    /\ pcFace' = "done"
    /\ UNCHANGED <<faceIn, uvVars, clampVars, axisVars, rotVars, texVars, bpy,
                   animVars, exportVars>>

NextFace == CallGenerateFaces

SpecFace == InitFace /\ [][NextFace]_vars

----------------------------------------------------------------------------
(* Specification of the uv reconstruction: one textured polygon of a box,
   its vertex loop and its uv loop starting at any corner with either
   winding, goes through the texture branch of the face loop. *)

\* the uv rectangles drawn: those of UVRects and the one of a mesh whose
\* uv coordinates are all zero
UVInputRects == {UVRects[k] : k \in 1..4} \cup {<<0, 0, 0, 0>>}

UVInputs ==
    [normal : {CubeNormals[k] : k \in 1..6},
     vstart : 0..3, vccw : BOOLEAN,
     rect : UVInputRects, ustart : 0..3, uccw : BOOLEAN,
     size : {<<32, 16>>, <<8, 8>>}]

UVPolygon(in) ==
    [normal |-> in.normal, material_index |-> 0,
     vertices |-> PolyVertices(in.normal, in.vstart, in.vccw),
     uvs |-> UVLoop(in.rect, in.ustart, in.uccw)]

UVBox == << <<0, 0, 0>>, <<1, 2, 3>> >>

InitUV ==
    /\ uvIn \in UVInputs
    /\ uvOut = <<>>
    /\ pcUV = "call"
    /\ ClampIdle
    /\ AxisIdle
    /\ FaceIdle
    /\ RotIdle
    /\ TexIdle
    /\ BpyIdle
    /\ AnimIdle
    /\ ExportIdle

CallTexturedFace ==
    /\ pcUV = "call"
    /\ uvOut' = TexturedFace(InitialFace, UVPolygon(uvIn), uvIn.normal,
                             BoxVertices(UVBox),
                             Textured(S_texA, uvIn.size[1], uvIn.size[2]))
    /\ pcUV' = "done"
    /\ UNCHANGED <<uvIn, rotVars, texVars, bpy, animVars, exportVars, clampVars, axisVars,
                   faceVars>>

NextUV == CallTexturedFace

SpecUV == InitUV /\ [][NextUV]_vars

Init ==
    /\ scene \in SceneSet
    /\ \E run \in Runs : options = run[1] /\ bpy = BpyOf(scene, run[2])
    /\ pc = "armature"
    /\ err = ""
    /\ armature = 0
    /\ export_objects = filter_root_objects(scene)
    /\ root_elements = <<>>
    /\ model_colors = [none |-> ~options.use_only_exported_object_colors, set |-> {}]
    /\ model_textures = <<>>
    /\ color_tex = <<>>
    /\ texture_refs = <<>>
    /\ model_json = ModelJsonStub
    /\ file = <<>>
    /\ RotIdle
    /\ PureIdle
    /\ TexIdle
    /\ AnimIdle

\* lines 1110-1128 when the loop finds no armature, or export_armature is off
NoArmature ==
    /\ pc = "armature"
    /\ ~(options.export_armature /\ FirstArmature(scene, export_objects) # 0)
    /\ pc' = "geometry"
    /\ UNCHANGED <<scene, options, bpy, err, armature, export_objects, root_elements,
                   model_colors, model_textures, color_tex, texture_refs, model_json,
                   file, rotVars, texVars, animVars, pureVars>>

\* lines 1110-1128: the armature found, the export starts at the main
\* objects of its root bones
FindArmature ==
    /\ pc = "armature"
    /\ options.export_armature
    /\ FirstArmature(scene, export_objects) # 0
    /\ LET a == FirstArmature(scene, export_objects)
           bh == get_bone_hierarchy(scene, a)
       IN /\ ~RootBoneLookupFails(scene, a)
          /\ armature' = a
          /\ export_objects' = [i \in 1..Len(RootBones(scene)) |->
                                   At(bh, RootBones(scene)[i].name).main]
    /\ pc' = "geometry"
    /\ UNCHANGED <<scene, options, bpy, err, root_elements,
                   model_colors, model_textures, color_tex, texture_refs, model_json,
                   file, rotVars, texVars, animVars, pureVars>>

\* line 1126 raises KeyError: a root bone has no node in bone_hierarchy
FindArmatureRaises ==
    /\ pc = "armature"
    /\ options.export_armature
    /\ FirstArmature(scene, export_objects) # 0
    /\ RootBoneLookupFails(scene, FirstArmature(scene, export_objects))
    /\ armature' = FirstArmature(scene, export_objects)
    /\ pc' = "error"
    /\ err' = "KeyError: bone_hierarchy[bone.name]"
    /\ UNCHANGED <<scene, options, bpy, export_objects, root_elements,
                   model_colors, model_textures, color_tex, texture_refs, model_json,
                   file, rotVars, texVars, animVars, pureVars>>

\* lines 1137-1152
ParseGeometry ==
    /\ pc = "geometry"
    /\ LET r == ParseGeometryOf(scene, armature, export_objects)
       IN /\ root_elements' = r.elems
          /\ model_textures' = DedupTextures(r.textures, <<>>)
          /\ model_colors' = IF model_colors.none THEN model_colors
                             ELSE [none |-> FALSE, set |-> model_colors.set \cup r.colors]
    /\ pc' = "texture"
    /\ UNCHANGED <<scene, options, bpy, err, armature, export_objects,
                   color_tex, texture_refs, model_json,
                   file, rotVars, texVars, animVars, pureVars>>

\* lines 1157-1188: generate_texture
GenerateColorTexture ==
    /\ pc = "texture"
    /\ options.generate_texture
    /\ LET cs == IF model_colors.none THEN FileMaterialColors ELSE model_colors.set
           tex == create_color_texture(ColorSeq(cs))
           name == IF options.color_texture_filename = <<>>
                   THEN SplitExtRoot(PathTail(FilePath))
                   ELSE options.color_texture_filename
       IN /\ model_colors' = [none |-> FALSE, set |-> cs]
          /\ color_tex' = <<tex>>
          /\ model_json' =
               [model_json EXCEPT
                  !.textureSizes = (<<"0">> :> <<tex.tex_size, tex.tex_size>>) @@ @,
                  !.textures = (<<"0">> :> PosixJoin(options.texture_folder, name)) @@ @]
    /\ pc' = "paths"
    /\ UNCHANGED <<scene, options, bpy, err, armature, export_objects, root_elements,
                   model_textures, texture_refs,
                   file, rotVars, texVars, animVars, pureVars>>

\* lines 1192-1194: no generated texture, only its path is written
WriteColorTexturePath ==
    /\ pc = "texture"
    /\ ~options.generate_texture
    /\ options.color_texture_filename # <<>>
    /\ model_json' =
         [model_json EXCEPT
            !.textureSizes = (<<"0">> :> <<16, 16>>) @@ @,
            !.textures = (<<"0">> :> PosixJoin(options.texture_folder,
                                               options.color_texture_filename)) @@ @]
    /\ pc' = "paths"
    /\ UNCHANGED <<scene, options, bpy, err, armature, export_objects, root_elements,
                   model_colors, model_textures, color_tex, texture_refs,
                   file, rotVars, texVars, animVars, pureVars>>

\* neither branch of lines 1157-1194
NoColorTexture ==
    /\ pc = "texture"
    /\ ~options.generate_texture
    /\ options.color_texture_filename = <<>>
    /\ pc' = "paths"
    /\ UNCHANGED <<scene, options, bpy, err, armature, export_objects, root_elements,
                   model_colors, model_textures, color_tex, texture_refs, model_json,
                   file, rotVars, texVars, animVars, pureVars>>

\* the n entries (str(id) :> value) of a dict filled in the loop of 1204-1215
TextureEntries(value(_)) ==
    [k \in {Str(i) : i \in 1..Len(model_textures)} |->
        value(CHOOSE i \in 1..Len(model_textures) : Str(i) = k)]

\* lines 1202-1215
ProcessTexturePaths ==
    /\ pc = "paths"
    /\ texture_refs' =
         [p \in {model_textures[i].path : i \in 1..Len(model_textures)} |->
            <<"#">> \o Str(CHOOSE i \in 1..Len(model_textures) : model_textures[i].path = p)]
    /\ model_json' =
         [model_json EXCEPT
            !.textures =
               TextureEntries(LAMBDA i : PosixJoin(options.texture_folder,
                                             TextureFilename(model_textures[i].path))) @@ @,
            !.textureSizes = TextureEntries(LAMBDA i : model_textures[i].size) @@ @]
    /\ pc' = "translate"
    /\ UNCHANGED <<scene, options, bpy, err, armature, export_objects, root_elements,
                   model_colors, model_textures, color_tex,
                   file, rotVars, texVars, animVars, pureVars>>

ShiftRootFromTo(element, t) ==
    [element EXCEPT !.to = VAdd(t, @), !.from = VAdd(t, @)]

\* lines 1225-1227: re-centering of a root element
ShiftRoot(element, t) ==
    [element EXCEPT !.to = VAdd(t, @), !.from = VAdd(t, @),
                    !.rotationOrigin = VAdd(t, @)]

\* lines 1221-1227
TranslateOrigin ==
    /\ pc = "translate"
    /\ root_elements' =
         IF options.translate_origin = <<>> THEN root_elements
         ELSE LET t == to_y_up(options.translate_origin[1])
              IN [i \in 1..Len(root_elements) |-> ShiftRoot(root_elements[i], t)]
    /\ pc' = "final"
    /\ UNCHANGED <<scene, options, bpy, err, armature, export_objects,
                   model_colors, model_textures, color_tex, texture_refs, model_json,
                   file, rotVars, texVars, animVars, pureVars>>

\* lines 1234-1259
FinalProcessing ==
    /\ pc = "final"
    /\ ~(color_tex = <<>> /\ HasTupleFace(root_elements))
    /\ root_elements' = FinalElements(root_elements,
                                      IF color_tex # <<>> THEN color_tex[1] ELSE NoAtlas,
                                      texture_refs)
    /\ pc' = "groups"
    /\ UNCHANGED <<scene, options, bpy, err, armature, export_objects,
                   model_colors, model_textures, color_tex, texture_refs, model_json,
                   file, rotVars, texVars, animVars, pureVars>>

\* line 1243 raises NameError: color_tex_uv_map was never assigned
FinalProcessingRaises ==
    /\ pc = "final"
    /\ color_tex = <<>>
    /\ HasTupleFace(root_elements) = TRUE
    /\ pc' = "error"
    /\ err' = "NameError: color_tex_uv_map"
    /\ UNCHANGED <<scene, options, bpy, armature, export_objects, root_elements,
                   model_colors, model_textures, color_tex, texture_refs, model_json,
                   file, rotVars, texVars, animVars, pureVars>>

\* lines 1264-1274: groups is the empty dict, nothing ever writes to it
ConvertGroups ==
    /\ pc = "groups"
    /\ model_json' = [model_json EXCEPT !.keys = @ \cup {"elements", "groups"},
                                        !.elements = root_elements,
                                        !.groups = <<>>]
    /\ pc' = "animations"
    /\ UNCHANGED <<scene, options, bpy, err, armature, export_objects, root_elements,
                   model_colors, model_textures, color_tex, texture_refs,
                   file, rotVars, texVars, animVars, pureVars>>

\* lines 1279-1282
ExportAnimations ==
    /\ pc = "animations"
    /\ options.export_animations
    /\ LET r == save_all_animations(bpy)
       IN /\ ~r.raised
          /\ model_json' =
               IF Len(r.animations) > 0
               THEN [model_json EXCEPT !.keys = @ \cup {"animations"},
                                       !.animations = r.animations]
               ELSE model_json
    /\ pc' = "save"
    /\ UNCHANGED <<scene, options, bpy, err, armature, export_objects, root_elements,
                   model_colors, model_textures, color_tex, texture_refs,
                   file, rotVars, texVars, animVars, pureVars>>

\* line 978 raises KeyError inside save_all_animations
ExportAnimationsRaises ==
    /\ pc = "animations"
    /\ options.export_animations
    /\ save_all_animations(bpy).raised
    /\ pc' = "error"
    /\ err' = "KeyError: bones[bone_name]"
    /\ UNCHANGED <<scene, options, bpy, armature, export_objects, root_elements,
                   model_colors, model_textures, color_tex, texture_refs, model_json,
                   file, rotVars, texVars, animVars, pureVars>>

\* export_animations is off
SkipAnimations ==
    /\ pc = "animations"
    /\ ~options.export_animations
    /\ pc' = "save"
    /\ UNCHANGED <<scene, options, bpy, err, armature, export_objects, root_elements,
                   model_colors, model_textures, color_tex, texture_refs, model_json,
                   file, rotVars, texVars, animVars, pureVars>>

\* lines 1287-1312: the document written to filepath
Save ==
    /\ pc = "save"
    /\ file' = << [indent |-> IF options.minify THEN <<>> ELSE <<2>>,
                   document |-> model_json] >>
    /\ pc' = "done"
    /\ UNCHANGED <<scene, options, bpy, err, armature, export_objects, root_elements,
                   model_colors, model_textures, color_tex, texture_refs, model_json,
                   rotVars, texVars, animVars, pureVars>>

Next ==
    \/ NoArmature
    \/ FindArmature
    \/ FindArmatureRaises
    \/ ParseGeometry
    \/ GenerateColorTexture
    \/ WriteColorTexturePath
    \/ NoColorTexture
    \/ ProcessTexturePaths
    \/ TranslateOrigin
    \/ FinalProcessing
    \/ FinalProcessingRaises
    \/ ConvertGroups
    \/ ExportAnimations
    \/ ExportAnimationsRaises
    \/ SkipAnimations
    \/ Save

Spec == Init /\ [][Next]_vars

----------------------------------------------------------------------------
(* SpecAnim: save_all_animations on lists of up to MaxActions actions *)

ActionLists ==
    UNION {[1..n -> ActionTemplates] : n \in 0..MaxActions}

InitAnim ==
    /\ \E arms \in {<<>>, <<S_Armature>>, <<S_ArmatureData>>}, acts \in ActionLists :
          bpy = [armatures |-> arms,
                 object_names |-> {S_Armature, S_body, S_arm, S_cube},
                 pose_bones |-> PoseBones,
                 actions |-> acts]
    /\ returned = [raised |-> FALSE, animations |-> <<>>]
    /\ pcAnim = "call"
    /\ RotIdle
    /\ PureIdle
    /\ TexIdle
    /\ ExportIdle

\* save_all_animations returns its list
SaveAllAnimations ==
    /\ pcAnim = "call"
    /\ ~save_all_animations(bpy).raised
    /\ returned' = save_all_animations(bpy)
    /\ pcAnim' = "done"
    /\ UNCHANGED <<bpy, rotVars, texVars, exportVars, pureVars>>

\* save_all_animations is left by the KeyError of line 978
SaveAllAnimationsRaises ==
    /\ pcAnim = "call"
    /\ save_all_animations(bpy).raised
    /\ returned' = save_all_animations(bpy)
    /\ pcAnim' = "raised"
    /\ UNCHANGED <<bpy, rotVars, texVars, exportVars, pureVars>>

NextAnim == SaveAllAnimations \/ SaveAllAnimationsRaises

SpecAnim == InitAnim /\ [][NextAnim]_vars

----------------------------------------------------------------------------
(* C2: the residual of get_reduced_rotation has |x|, |y| at most 90        *)
(* degrees and |z| at most 45 degrees, up to the slack eps.                *)
C2_ResidualBounded ==
    pcRot = "done" =>
        /\ Abs(reduced.residual_rotation.x) <= HalfPi + Eps
        /\ Abs(reduced.residual_rotation.y) <= HalfPi + Eps
        /\ Abs(reduced.residual_rotation.z) <= QuarterPi + Eps

\* a Z step was extracted and left a residual beyond 45 degrees, within eps
C2_Witness ==
    /\ pcRot = "done"
    /\ reduced.zsteps # 0
    /\ Abs(reduced.residual_rotation.z) > QuarterPi
    /\ reduced.xsteps # 0

(* C3: the 90 degree steps composed with the residual reproduce the input  *)
(* rotation: on each axis residual + 90 degrees * steps is the input angle,*)
(* and the step rotation composed with the residual rotation (in either    *)
(* order) is the input's orientation.                                      *)
C3_Recomposes ==
    pcRot = "done" =>
        /\ reduced.residual_rotation.x + reduced.xsteps * HalfPi = rotation.x
        /\ reduced.residual_rotation.y + reduced.ysteps * HalfPi = rotation.y
        /\ reduced.residual_rotation.z + reduced.zsteps * HalfPi = rotation.z
        /\ IsTrigEuler(rotation) =>
            LET steps == [x |-> reduced.xsteps * HalfPi,
                          y |-> reduced.ysteps * HalfPi,
                          z |-> reduced.zsteps * HalfPi]
                M == EulerToMatrix125(steps)
                R == EulerToMatrix125(reduced.residual_rotation)
                whole == MatScale(125, EulerToMatrix125(rotation))
            IN MatMul(M, R) = whole \/ MatMul(R, M) = whole

RECURSIVE IsPow2(_)
IsPow2(n) == n = 1 \/ (n > 1 /\ n % 2 = 0 /\ IsPow2(n \div 2))

(* C10: for N distinct colors the atlas side is the smallest power of two  *)
(* that is at least 16 and at least 3 * ceil(sqrt(N + 1)).                 *)
C10_AtlasSide ==
    pcTex = "done" =>
        LET N == Len(colors)
            need == CHOOSE k \in 0..(N + 1) :
                        k * k >= N + 1 /\ \A j \in 0..(k - 1) : j * j < N + 1
            Fits(s) == IsPow2(s) /\ s >= 16 /\ s >= 3 * need
        IN /\ Fits(atlas.tex_size)
           /\ \A s \in 1..(atlas.tex_size - 1) : ~Fits(s)

\* an atlas that had to grow beyond the minimum size
C10_Witness ==
    /\ pcTex = "done"
    /\ atlas.tex_size > 32
    /\ Len(colors) > 100

----------------------------------------------------------------------------
(* Properties of save_objects and save_all_animations *)

\* the elements of the tree elems, each with its parent element (<<>> for
\* none, else <<parent>>)
RECURSIVE ElementPairs(_, _)
ElementPairs(elems, parent) ==
    UNION {{<<elems[i], parent>>} \cup ElementPairs(elems[i].children, <<elems[i]>>) :
             i \in 1..Len(elems)}

\* the objects that elements and attach points of the tree were made from
RECURSIVE ElementObjs(_)
ElementObjs(elems) ==
    UNION {{elems[i].obj}
             \cup {elems[i].attachmentpoints[k].obj :
                     k \in 1..Len(elems[i].attachmentpoints)}
             \cup ElementObjs(elems[i].children) : i \in 1..Len(elems)}

\* the root elements have been moved by translate_origin
RootShift ==
    IF pc \notin {"armature", "geometry", "texture", "paths", "translate"}
       /\ options.translate_origin # <<>>
    THEN to_y_up(options.translate_origin[1])
    ELSE Vec0

\* C1 (as the code computes it): every element below a parent has
\* rotationOrigin = its axis-permuted origin - the parent's from + the
\* parent's rotationOrigin; a root has its axis-permuted origin, moved by
\* translate_origin; in an unrotated scene without armature the
\* axis-permuted origin is the axis-permuted location of the object.
C1_RotationOrigin ==
    \A pr \in ElementPairs(root_elements, <<>>) :
        /\ pr[2] # <<>> =>
             pr[1].rotationOrigin =
                VAdd(VSub(pr[1].origin, pr[2][1].from), pr[2][1].rotationOrigin)
        /\ pr[2] = <<>> => pr[1].rotationOrigin = VAdd(pr[1].origin, RootShift)
        /\ (scene.kind = "plain" /\ scene.rot = 1) =>
             pr[1].origin = to_y_up(ObjLocation(pr[1].obj))

\* the export is done; the unrotated child cube, translated by (1, 0, 0),
\* sits below the unrotated root base placed at the origin, whose from
\* differs from its rotationOrigin
C1_Witness ==
    /\ pc = "done"
    /\ scene.kind = "plain" /\ scene.rot = 1
    /\ \E pr \in ElementPairs(root_elements, <<>>) :
          /\ pr[2] # <<>>
          /\ pr[1].obj = 2 /\ pr[2][1].obj = 1
          /\ pr[2][1].from # pr[2][1].rotationOrigin
          /\ pr[1].rotationOrigin = VSub(to_y_up(<<1, 0, 0>>), pr[2][1].from)

\* C1 as stated: rotationOrigin = the parent's from - the parent's
\* rotationOrigin + the element's axis-permuted origin
C1_AsStated ==
    \A pr \in ElementPairs(root_elements, <<>>) :
        pr[2] # <<>> =>
           pr[1].rotationOrigin =
              VAdd(VSub(pr[2][1].from, pr[2][1].rotationOrigin), pr[1].origin)

\* o is the object its bone is named after in the export of the armature
IsBoneMain(sc, o) ==
    /\ sc.kind = "armature"
    /\ ObjParentBone(sc, o) # <<>>
    /\ ObjParentBone(sc, o) \in DOMAIN get_bone_hierarchy(sc, 1)
    /\ get_bone_hierarchy(sc, 1)[ObjParentBone(sc, o)].main = o

\* the other objects of the bone of a main object o, and the main objects
\* of the child bones
BoneFollowers(sc, o) ==
    LET bh == get_bone_hierarchy(sc, 1)
        b == ObjParentBone(sc, o)
    IN {bh[b].children[k] : k \in 2..Len(bh[b].children)}
          \cup {bh[c].main : c \in {n \in DOMAIN bh :
                                      \E i \in 1..Len(Bones(sc)) :
                                         /\ Bones(sc)[i].name = n
                                         /\ Bones(sc)[i].parent = b}}

\* o and its descendants: ordinary children, attach points, bone siblings
\* and child-bone representatives
RECURSIVE Subtree(_, _)
Subtree(sc, o) ==
    {o} \cup UNION {Subtree(sc, c) : c \in {d \in ObjIds : ObjParent(sc, d) = o}}
        \cup (IF IsBoneMain(sc, o)
              THEN UNION {Subtree(sc, c) : c \in BoneFollowers(sc, o)}
              ELSE {})

\* the subtree of the object whose mesh has not 8 vertices
Excluded(sc) == IF sc.bad = 0 THEN {} ELSE Subtree(sc, sc.bad)

\* the tree elems without the elements and attach points made from X
RECURSIVE Prune(_, _)
Prune(elems, X) ==
    LET kept == SelectSeq(elems, LAMBDA e : e.obj \notin X)
    IN [i \in 1..Len(kept) |->
          [kept[i] EXCEPT !.children = Prune(@, X),
                          !.attachmentpoints = SelectSeq(@, LAMBDA a : a.obj \notin X)]]

\* C4: the object whose mesh has not 8 vertices and its descendants make
\* no element and no attach point anywhere in the output, and the elements
\* parse geometry leaves are those of the same scene with a proper mesh,
\* less that subtree.
C4_SubtreeExcluded ==
    /\ ElementObjs(root_elements) \cap Excluded(scene) = {}
    /\ (scene.bad # 0 /\ pc \in {"texture", "paths", "translate"}) =>
          root_elements =
             Prune(ParseGeometryOf([scene EXCEPT !.bad = 0], armature,
                                   export_objects).elems,
                   Excluded(scene))

\* an armature export is done; the main object of a bone has a mesh that
\* is no cuboid, objects of its bone and below it are excluded with it, and
\* other elements are in the output
C4_Witness ==
    /\ pc = "done"
    /\ armature # 0
    /\ scene.bad # 0
    /\ IsBoneMain(scene, scene.bad)
    /\ Cardinality(Excluded(scene)) >= 3
    /\ root_elements # <<>>

\* C5: polygons after the sixth change nothing: elements and textures are
\* those of the same scene with six polygons per mesh, and the element of
\* the object with more polygons is there.
C5_ExtraPolygonsIgnored ==
    scene.kind # "none" /\ scene.extra > 0 =>
       /\ pc \notin {"armature", "geometry"} => 2 \in ElementObjs(root_elements)
       /\ pc \in {"texture", "paths", "translate"} =>
            LET six == ParseGeometryOf([scene EXCEPT !.extra = 0], armature,
                                       export_objects)
            IN /\ root_elements = six.elems
               /\ model_textures = DedupTextures(six.textures, <<>>)

\* the export is done for a scene whose cube has more than 6 polygons
C5_Witness ==
    /\ pc = "done"
    /\ scene.extra > 0
    /\ Len(ObjPolygons(scene, 2)) > 6
    /\ 2 \in ElementObjs(root_elements)

\* some bone of the armature has no object parented to it
BoneWithoutObjects(sc) ==
    \E i \in 1..Len(Bones(sc)) :
        \A o \in ObjIds : ObjParentBone(sc, o) # Bones(sc)[i].name

\* C6 as stated: with a bone no object is parented to, the export of the
\* armature does not end in the error of the bone lookup.
C6_AsStated ==
    (scene.kind = "armature" /\ options.export_armature /\ BoneWithoutObjects(scene))
       => ~(pc = "error" /\ err = "KeyError: bone_hierarchy[bone.name]")

\* there is no armature, or no object has the name of the first armature
NoArmatureObject(b) ==
    Len(b.armatures) = 0 \/ b.armatures[1] \notin b.object_names

\* C7: without an object named as the armature, save_all_animations
\* returns the empty list, the step changes nothing but the position, and
\* the document written has no animations key and has the elements.
C7_NoArmatureObject ==
    /\ []((pc = "done" /\ options.export_animations /\ NoArmatureObject(bpy)) =>
             /\ "animations" \notin file[1].document.keys
             /\ {"elements", "groups", "textures"} \subseteq file[1].document.keys
             /\ file[1].document.elements = root_elements)
    /\ [][(pc = "animations" /\ options.export_animations /\ NoArmatureObject(bpy)) =>
             /\ save_all_animations(bpy) = [raised |-> FALSE, animations |-> <<>>]
             /\ pc' = "save"
             /\ model_json' = model_json
             /\ root_elements' = root_elements]_vars

\* an export with actions is done in a scene whose armature data has a
\* name no object has
C7_Witness ==
    /\ pc = "done"
    /\ options.export_animations
    /\ bpy.armatures = <<S_ArmatureData>>
    /\ bpy.actions # <<>>
    /\ "animations" \notin file[1].document.keys
    /\ file[1].document.elements # <<>>

\* some action has a curve of a bone that is no pose bone
HasAbsentBoneCurve(b) ==
    \E i \in 1..Len(b.actions) :
        \E k \in 1..Len(b.actions[i].fcurves) :
            /\ StartsWith(b.actions[i].fcurves[k].data_path, S_pose_bones)
            /\ PathBoneName(b.actions[i].fcurves[k].data_path) \notin DOMAIN b.pose_bones

\* C8 as stated: with a curve of an absent bone the call still returns,
\* with one animation for every action that has curves.
C8_AsStated ==
    (pcAnim \in {"done", "raised"} /\ ~NoArmatureObject(bpy) /\ HasAbsentBoneCurve(bpy)) =>
       /\ pcAnim = "done"
       /\ Len(returned.animations) =
             Len(SelectSeq(bpy.actions, LAMBDA a : Len(a.fcurves) > 0))

\* the markers of the action that name the end of the animation
EndMarkers(action) ==
    SelectSeq(action.pose_markers, LAMBDA m : StartsWith(m.name, S_onAnimationEnd_))

\* C9: the k-th animation returned is that of the k-th action with curves;
\* with an onAnimationEnd_ marker its quantityframes is one past the frame
\* of the last such marker and onAnimationEnd is the suffix of the marker,
\* else quantityframes is one past the frame of the last keyframe, and 0
\* without keyframes.
C9_QuantityFrames ==
    (pcAnim = "done" /\ ~NoArmatureObject(bpy)) =>
       LET exported == SelectSeq(bpy.actions, LAMBDA a : Len(a.fcurves) > 0)
       IN /\ Len(returned.animations) = Len(exported)
          /\ \A k \in 1..Len(exported) :
                LET an == returned.animations[k]
                    ends == EndMarkers(exported[k])
                IN /\ an.name = exported[k].name
                   /\ IF ends # <<>>
                      THEN /\ an.quantityframes = ends[Len(ends)].frame + 1
                           /\ an.onAnimationEnd = SliceFrom(ends[Len(ends)].name, 15)
                      ELSE IF an.keyframes # <<>>
                      THEN an.quantityframes = an.keyframes[Len(an.keyframes)].frame + 1
                      ELSE an.quantityframes = 0

\* the call returned an animation closed by a marker that lies before its
\* last keyframe and an animation closed by its last keyframe
C9_Witness ==
    /\ pcAnim = "done"
    /\ \E k \in 1..Len(returned.animations) :
          /\ EndMarkers(bpy.actions[k]) # <<>>
          /\ returned.animations[k].keyframes # <<>>
          /\ returned.animations[k].quantityframes
                <= returned.animations[k].keyframes[
                      Len(returned.animations[k].keyframes)].frame
    /\ \E k \in 1..Len(returned.animations) :
          /\ EndMarkers(bpy.actions[k]) = <<>>
          /\ returned.animations[k].keyframes # <<>>
    /\ Len(returned.animations) = Len(bpy.actions)

----------------------------------------------------------------------------
(* Properties of the color atlas *)

\* rectangles [x1, y1, x2, y2] that share a point
Overlap(r, s) == r[1] <= s[3] /\ s[1] <= r[3] /\ r[2] <= s[4] /\ s[2] <= r[4]

\* a rectangle with x1 < x2 and y1 < y2 inside the atlas; the coordinates
\* of the model are the uv coordinates times tex_size, so 16 is 16 * size
InsideAtlas(r, size) ==
    /\ 0 <= r[1] /\ r[1] < r[3] /\ r[3] <= 16 * size
    /\ 0 <= r[2] /\ r[2] < r[4] /\ r[4] <= 16 * size

\* C11: the N rectangles of N distinct colors and the rectangle of the
\* default color are N + 1 rectangles inside the atlas (coordinates within
\* 0..16) of which no two share a point.
C11_DisjointTiles ==
    pcTex = "done" =>
       LET uv == atlas.color_tex_uv_map
       IN /\ Cardinality(DOMAIN uv) = Len(colors)
          /\ InsideAtlas(atlas.default_color_uv, atlas.tex_size)
          /\ \A c \in DOMAIN uv :
                /\ InsideAtlas(uv[c], atlas.tex_size)
                /\ ~Overlap(uv[c], atlas.default_color_uv)
                /\ \A d \in DOMAIN uv : c # d => ~Overlap(uv[c], uv[d])

\* an atlas of several rows whose grid is full: the default color has the
\* last tile of the last row
C11_Witness ==
    /\ pcTex = "done"
    /\ \E g \in 2..12 :
          /\ Len(colors) + 1 = g * g
          /\ atlas.default_color_uv[3] = (3 * (g - 1) + 2) * 16
          /\ atlas.default_color_uv[4] = (3 * (g - 1) + 2) * 16
    /\ Cardinality(DOMAIN atlas.color_tex_uv_map) = Len(colors)

----------------------------------------------------------------------------
(* Properties of the uv reconstruction *)

\* the projected vertex loop of the polygon drawn
UVVerts ==
    ProjectVerts(uvIn.normal,
                 [k \in 1..4 |-> VertexAt(BoxVertices(UVBox), UVPolygon(uvIn).vertices[k])])

\* both loops counterclockwise, both starting at corner index 0
BothCounterclockwiseFromZero ==
    /\ uvIn.uccw /\ uvIn.ustart = 0 /\ uvIn.rect[1] < uvIn.rect[3]
    /\ uvIn.rect[2] < uvIn.rect[4]
    /\ uvIn.vccw /\ LoopStartIndex(UVVerts) = 0

\* C12: a textured face whose uv loop and projected vertex loop are both
\* counterclockwise and both start at corner index 0 gets no rotation key
\* and the uv rectangle [uv_min_x * width, (1 - uv_max_y) * height,
\* uv_max_x * width, (1 - uv_min_y) * height]: the rectangle
\* [uv_min_x, uv_max_y, uv_max_x, uv_min_y] flipped vertically and then
\* scaled by the texture's pixel width and height.
C12_UprightFace ==
    (pcUV = "done" /\ BothCounterclockwiseFromZero) =>
        /\ uvOut.rotation = <<>>
        /\ uvOut.uv_div = UVUnit
        /\ uvOut.uv = << uvIn.rect[1] * uvIn.size[1],
                         (UVUnit - uvIn.rect[4]) * uvIn.size[2],
                         uvIn.rect[3] * uvIn.size[1],
                         (UVUnit - uvIn.rect[2]) * uvIn.size[2] >>

C12_Witness ==
    /\ pcUV = "done" /\ BothCounterclockwiseFromZero
    /\ uvIn.rect = <<1, 2, 3, 4>> /\ uvIn.size = <<32, 16>>
    /\ uvOut.uv = <<32, 0, 96, 32>>

\* C12 as stated: the rectangle is [uv_min_x, uv_max_y, uv_max_x, uv_min_y]
\* scaled by the texture's pixel width and height, with no vertical flip
C12_AsStated ==
    (pcUV = "done" /\ BothCounterclockwiseFromZero) =>
        /\ uvOut.rotation = <<>>
        /\ uvOut.uv_div = UVUnit
        /\ uvOut.uv = << uvIn.rect[1] * uvIn.size[1], uvIn.rect[4] * uvIn.size[2],
                         uvIn.rect[3] * uvIn.size[1], uvIn.rect[2] * uvIn.size[2] >>

\* the rotation the tables give for the face drawn
LookedUpRotation ==
    LET u == LoopStartIndex(UVPolygon(uvIn).uvs) + 1
        w == LoopStartIndex(UVVerts) + 1
    IN IF loop_is_clockwise(UVPolygon(uvIn).uvs) = loop_is_clockwise(UVVerts)
       THEN COUNTERCLOCKWISE_UV_ROTATION_LOOKUP[u][w]
       ELSE CLOCKWISE_UV_ROTATION_LOOKUP[u][w]

\* C13: a face has a rotation key only with a value in {90, 180, 270}: for
\* every combination of windings and start indices the looked-up rotation
\* is in {0, 90, 180, 270}, and a rotation of 0 or 360 is never written.
C13_RotationKey ==
    /\ \A u \in 1..4, w \in 1..4 :
          /\ COUNTERCLOCKWISE_UV_ROTATION_LOOKUP[u][w] \in {0, 90, 180, 270}
          /\ CLOCKWISE_UV_ROTATION_LOOKUP[u][w] \in {0, 90, 180, 270}
    /\ pcUV = "done" =>
          /\ uvOut.rotation \in {<<>>, <<90>>, <<180>>, <<270>>}
          /\ uvOut.rotation = <<>> <=> LookedUpRotation \in {0, 360}
          /\ uvOut.rotation # <<>> => uvOut.rotation = <<LookedUpRotation>>

C13_Witness ==
    /\ pcUV = "done"
    /\ ~uvIn.uccw /\ uvIn.vccw
    /\ LookedUpRotation = 270
    /\ uvOut.rotation = <<270>>

----------------------------------------------------------------------------
(* Properties of clamp_rotation *)

\* a second call of clamp_rotation on a returned array: each component
\* goes through its two loops
RECURSIVE WhileGt(_)
WhileGt(x) == IF Gt360(x) THEN WhileGt(Sub360(x)) ELSE x

RECURSIVE WhileLt(_)
WhileLt(x) == IF LtMinus360(x) THEN WhileLt(Add360(x)) ELSE x

ClampAgain(v) == [k \in 1..3 |-> WhileLt(WhileGt(v[k]))]

\* the returned array is within [-360, 360], differs from the input by
\* whole multiples of 360 and is left as it is by a second call
ClampedResult ==
    /\ \A k \in 1..3 :
          /\ ~Gt360(clampR[k]) /\ ~LtMinus360(clampR[k])
          /\ clampR[k].e = clampIn[k].e
          /\ (clampIn[k].m - clampR[k].m) % Turn(clampR[k].e) = 0
    /\ ClampAgain(clampR) = clampR

\* C14: clamp_rotation is idempotent, each output component lies in
\* [-360, 360] and differs from the input component by a whole multiple
\* of 360, and the loops terminate for every finite input.
C14_AsStated ==
    /\ [](pcClamp = "done" => ClampedResult)
    /\ <>(pcClamp = "done")

----------------------------------------------------------------------------
(* Properties of to_y_up *)

\* C15: to_y_up maps (x, y, z) to (y, z, x); it is a bijection on
\* 3-vectors, and applying it three times gives the original vector.
C15_AxisCycle ==
    /\ axisCalls = 1 => axisOut = <<axisIn[2], axisIn[3], axisIn[1]>>
    /\ axisCalls = 3 => axisOut = axisIn
    /\ axisCalls >= 1 =>
          /\ \A v \in AxisVectors : to_y_up(v) = to_y_up(axisIn) => v = axisIn
          /\ \E v \in AxisVectors : to_y_up(v) = axisIn

C15_Witness ==
    /\ axisCalls = 3
    /\ axisIn = <<1, 2, 0>>
    /\ axisOut = axisIn

----------------------------------------------------------------------------
(* Properties of the texture ids *)

\* the textures met by the traversal, in the order met, repeats included
Encounters == ParseGeometryOf(scene, armature, export_objects).textures

\* how many distinct paths the traversal has met when it first meets p
EncounterRank(log, p) ==
    LET first == CHOOSE j \in 1..Len(log) :
                    /\ log[j].path = p
                    /\ \A k \in 1..(j - 1) : log[k].path # p
    IN Cardinality({log[k].path : k \in 1..first})

\* every face of pre that names a path of refs names its id in post
RECURSIVE FacesRewritten(_, _, _)
FacesRewritten(pre, post, refs) ==
    /\ Len(pre) = Len(post)
    /\ \A i \in 1..Len(pre) :
          /\ \A d \in DOMAIN pre[i].faces :
                (pre[i].faces[d].kind = "dict" /\ pre[i].faces[d].texture \in DOMAIN refs)
                   => post[i].faces[d].texture = refs[pre[i].faces[d].texture]
          /\ FacesRewritten(pre[i].children, post[i].children, refs)

\* the ids of texture_refs are those of the traversal result res, and
\* once the final processing is done its faces are rewritten
TextureIdsOf(res) ==
    LET log == res.textures
        paths == {log[k].path : k \in 1..Len(log)}
    IN /\ DOMAIN texture_refs = paths
       /\ \A p \in paths :
             /\ texture_refs[p] = <<"#">> \o Str(EncounterRank(log, p))
             /\ texture_refs[p] # S_hash0
             /\ EncounterRank(log, p) \in 1..Cardinality(paths)
             /\ \A q \in paths : texture_refs[p] = texture_refs[q] => p = q
       /\ pc # "translate" =>
             FacesRewritten(res.elems, root_elements, texture_refs)

\* C16: the textures of the materials get the ids 1, 2, 3, ... in the
\* order in which their paths were first met by the traversal; distinct
\* paths get distinct ids, no path gets id 0, and after the final
\* processing every face that named a texture path names "#<id>" of it.
\* Looked at when the ids are given, when the final processing is done
\* and when the document is saved.
C16_TextureIds ==
    pc \in {"translate", "groups", "done"} =>
       Strict(LAMBDA res : TextureIdsOf(res),
              ParseGeometryOf(scene, armature, export_objects))

\* the export is done, two textures were met, one of them more than once,
\* and a face names the second
C16_Witness ==
    /\ pc = "done"
    /\ Cardinality(DOMAIN texture_refs) = 2
    /\ Len(Encounters) > 2
    /\ \E pr \in ElementPairs(root_elements, <<>>) :
          \E d \in DOMAIN pr[1].faces : pr[1].faces[d].texture = <<"#", "2">>

----------------------------------------------------------------------------
(* Properties of the origin shift *)

\* the placement of the elements of a tree: from, to and rotationOrigin
\* of each element, its attach points, and the same of its children
RECURSIVE Placements(_)
Placements(elems) ==
    [i \in 1..Len(elems) |->
        [from |-> elems[i].from, to |-> elems[i].to,
         rotationOrigin |-> elems[i].rotationOrigin,
         attachmentpoints |-> elems[i].attachmentpoints,
         children |-> Placements(elems[i].children)]]

\* the roots of `unshifted` moved by t
MovedRoots(unshifted, t) ==
    [i \in 1..Len(unshifted) |->
        [unshifted[i] EXCEPT !.from = VAdd(@, t), !.to = VAdd(@, t),
                             !.rotationOrigin = VAdd(@, t)]]

\* the elements of `unshifted` are those of root_elements but for the shift
\* of the roots by t: as a whole right after the shift, in their placement
\* in the saved document
ShiftedBy(unshifted, t) ==
    /\ pc = "final" => root_elements = MovedRoots(unshifted, t)
    /\ Placements(root_elements) = Placements(MovedRoots(unshifted, t))
    /\ \A i \in 1..Len(unshifted) :
          VSub(root_elements[i].to, root_elements[i].from)
             = VSub(unshifted[i].to, unshifted[i].from)

\* C17: an origin shift t moves from, to and rotationOrigin of every root
\* element by (t.y, t.z, t.x) and changes nothing else: the placement of
\* every element below a root, all attach points and the extent of every
\* root are those of the export without a shift.
C17_OriginShift ==
    (pc \in {"final", "done"} /\ options.translate_origin # <<>>) =>
       LET t == options.translate_origin[1]
       IN Strict(LAMBDA res : ShiftedBy(res.elems, <<t[2], t[3], t[1]>>),
                 ParseGeometryOf(scene, armature, export_objects))

\* a shifted export is done whose first root has a child and an attach
\* point below it
C17_Witness ==
    /\ pc = "done"
    /\ options.translate_origin = << <<1, 2, 3>> >>
    /\ Len(root_elements) >= 1
    /\ Len(root_elements[1].children) >= 1
    /\ \E pr \in ElementPairs(root_elements, <<>>) : Len(pr[1].attachmentpoints) >= 1
    /\ root_elements[1].rotationOrigin
          = VAdd(ParseGeometryOf(scene, armature, export_objects).elems[1].rotationOrigin,
                 <<2, 3, 1>>)

----------------------------------------------------------------------------
(* Properties of the 90 degree steps of get_reduced_rotation *)

\* 100 degrees
Hundred == HalfPi + TenDeg

\* the rotation of angle a about the axis k (1: x, 2: y, 3: z)
AboutAxis(k, a) ==
    [x |-> IF k = 1 THEN a ELSE 0, y |-> IF k = 2 THEN a ELSE 0,
     z |-> IF k = 3 THEN a ELSE 0]

\* C18: get_reduced_rotation returns a rotation of 90 degree steps exactly
\* when a step was extracted on some axis, and none when the three step
\* counts are zero; 100 degrees about a single axis gives a step rotation
\* of exactly one step on that axis and a residual of at most 90 degrees.
C18_StepRotation ==
    pcRot = "done" =>
       /\ reduced.rotation_90deg # <<>>
             <=> (reduced.xsteps # 0 \/ reduced.ysteps # 0 \/ reduced.zsteps # 0)
       /\ reduced.rotation_90deg # <<>> <=> reduced.residual_rotation # rotation
       /\ reduced.rotation_90deg # <<>> =>
             reduced.rotation_90deg[1] = [x |-> reduced.xsteps * HalfPi,
                                          y |-> reduced.ysteps * HalfPi,
                                          z |-> reduced.zsteps * HalfPi]
       /\ \A k \in 1..3, s \in {-1, 1} :
             rotation = AboutAxis(k, s * Hundred) =>
                /\ reduced.rotation_90deg = <<AboutAxis(k, s * HalfPi)>>
                /\ <<reduced.xsteps, reduced.ysteps, reduced.zsteps>>
                      = [j \in 1..3 |-> IF j = k THEN s ELSE 0]
                /\ reduced.residual_rotation = AboutAxis(k, s * TenDeg)
                /\ Abs(s * TenDeg) <= HalfPi

C18_Witness ==
    /\ pcRot = "done"
    /\ rotation = AboutAxis(3, Hundred)
    /\ reduced.zsteps = 1
    /\ reduced.rotation_90deg = <<AboutAxis(3, HalfPi)>>
    /\ reduced.residual_rotation.z = TenDeg

\* res is not past zero, seen from an input of sign sgn, by `slack` or more
NotPastZero(res, sgn, slack) == sgn * res > -slack

----------------------------------------------------------------------------
(* Properties of the face directions *)

\* the normals of the six polygons of the box after the 90 degree
\* matrices ms, applied in their order
TurnedNormals(ms) ==
    [i \in 1..6 |->
        LET n1 == IF Len(ms) >= 1 THEN MatVec(ms[1], CubeNormals[i]) ELSE CubeNormals[i]
        IN IF Len(ms) >= 2 THEN MatVec(ms[2], n1) ELSE n1]

\* polygon i, of turned normal ns[i], is the face of the direction nearest
\* to ns[i], and every direction has one polygon
NearestDirections(ns) ==
    /\ \A i \in 1..6 :
          \E k \in 1..6 :
             /\ \A j \in 1..6 : j # k =>
                   Dot(ns[i], DIRECTION_NORMALS[j]) < Dot(ns[i], DIRECTION_NORMALS[k])
             /\ faceOut[DIRECTIONS[k]] = ColorFace(FaceColors[i])
    /\ DOMAIN faceOut = {DIRECTIONS[k] : k \in 1..6}
    /\ \A d \in DOMAIN faceOut :
          Cardinality({i \in 1..6 : faceOut[d] = ColorFace(FaceColors[i])}) = 1

\* C20: each polygon gets the direction whose reference normal has the
\* largest dot product with the polygon's normal after the parent's and
\* the object's own 90 degree step rotations; so on a box with the six
\* axis directions as normals, under every combination of 90 degree steps,
\* each of north, east, west, south, up and down gets exactly one polygon.
C20_FaceDirections ==
    pcFace = "done" =>
       Strict(LAMBDA ns : NearestDirections(ns),
              Strict(LAMBDA ms : TurnedNormals(ms), FaceRotations(faceIn)))

\* parent and object are both turned, about different axes, and the
\* polygon facing north in the mesh ends up as the face "up"
C20_Witness ==
    /\ pcFace = "done"
    /\ faceIn.parent = <<[x |-> HalfPi, y |-> 0, z |-> 0]>>
    /\ faceIn.own = <<[x |-> 0, y |-> HalfPi, z |-> -HalfPi]>>
    /\ faceOut["up"] = ColorFace(FaceColors[1])

----------------------------------------------------------------------------
(* Properties of the start corners and the windings of the two loops *)

\* the bounding box <<min_x, min_y, max_x, max_y>> of the four points
BoundingBox(loop) ==
    << CHOOSE a \in {loop[k][1] : k \in 1..4} : \A k \in 1..4 : a <= loop[k][1],
       CHOOSE a \in {loop[k][2] : k \in 1..4} : \A k \in 1..4 : a <= loop[k][2],
       CHOOSE a \in {loop[k][1] : k \in 1..4} : \A k \in 1..4 : a >= loop[k][1],
       CHOOSE a \in {loop[k][2] : k \in 1..4} : \A k \in 1..4 : a >= loop[k][2] >>

\* the corner of its bounding box at which a loop starts, with y upwards:
\* bottom-left 0, bottom-right 1, top-right 2, top-left 3
CornerBottomFirst(loop) ==
    LET b == BoundingBox(loop)
    IN CASE loop[1] = <<b[1], b[2]>> -> 0
         [] loop[1] = <<b[3], b[2]>> -> 1
         [] loop[1] = <<b[3], b[4]>> -> 2
         [] loop[1] = <<b[1], b[4]>> -> 3

\* the same with top-left 0, top-right 1, bottom-right 2, bottom-left 3
CornerTopFirst(loop) ==
    LET b == BoundingBox(loop)
    IN CASE loop[1] = <<b[1], b[4]>> -> 0
         [] loop[1] = <<b[3], b[4]>> -> 1
         [] loop[1] = <<b[3], b[2]>> -> 2
         [] loop[1] = <<b[1], b[2]>> -> 3

\* the rotation key of a face whose loops start at the corners u and w
RotationKeyFor(u, w) ==
    LET rot == IF loop_is_clockwise(UVPolygon(uvIn).uvs) = loop_is_clockwise(UVVerts)
               THEN COUNTERCLOCKWISE_UV_ROTATION_LOOKUP[u + 1][w + 1]
               ELSE CLOCKWISE_UV_ROTATION_LOOKUP[u + 1][w + 1]
    IN IF rot = 0 THEN <<>> ELSE <<rot>>

\* the uv rectangle drawn has an area
ProperRect == uvIn.rect[1] < uvIn.rect[3] /\ uvIn.rect[2] < uvIn.rect[4]

\* C21: the start corner index of the uv loop is found by testing its
\* first point against the loop's bounding box, with the rule
\* bottom-left = 0, bottom-right = 1, top-right = 2, top-left = 3 in source
\* uv axes (y up); the index of the projected vertex loop is found by the
\* same rule; the face's rotation is the one the tables give for these.
C21_StartCorners ==
    (pcUV = "done" /\ ProperRect) =>
       /\ LoopStartIndex(UVPolygon(uvIn).uvs) = CornerBottomFirst(UVPolygon(uvIn).uvs)
       /\ LoopStartIndex(UVVerts) = CornerBottomFirst(UVVerts)
       /\ uvOut.rotation = RotationKeyFor(CornerBottomFirst(UVPolygon(uvIn).uvs),
                                          CornerBottomFirst(UVVerts))

\* the uv loop starts at its top-left corner, which is index 3
C21_Witness ==
    /\ pcUV = "done" /\ ProperRect
    /\ UVPolygon(uvIn).uvs[1] = <<uvIn.rect[1], uvIn.rect[4]>>
    /\ LoopStartIndex(UVPolygon(uvIn).uvs) = 3
    /\ LoopStartIndex(UVVerts) = 0
    /\ uvIn.uccw /\ ~loop_is_clockwise(UVVerts)
    /\ uvOut.rotation = <<270>>

\* C21 as stated: the rule is top-left = 0, top-right = 1,
\* bottom-right = 2, bottom-left = 3 in source uv axes (y up)
C21_AsStated ==
    (pcUV = "done" /\ ProperRect) =>
       /\ LoopStartIndex(UVPolygon(uvIn).uvs) = CornerTopFirst(UVPolygon(uvIn).uvs)
       /\ LoopStartIndex(UVVerts) = CornerTopFirst(UVVerts)
       /\ uvOut.rotation = RotationKeyFor(CornerTopFirst(UVPolygon(uvIn).uvs),
                                          CornerTopFirst(UVVerts))

\* the windings of the uv loop and of the projected vertex loop agree
SameWinding == loop_is_clockwise(UVPolygon(uvIn).uvs) = loop_is_clockwise(UVVerts)

\* what lines 685-692 write for the rectangle <<x0, y0, x1, y1>> and the
\* rotation rot
WrittenAs(x0, y0, x1, y1, rot) ==
    /\ uvOut.uv = << x0 * uvIn.size[1], (UVUnit - y0) * uvIn.size[2],
                     x1 * uvIn.size[1], (UVUnit - y1) * uvIn.size[2] >>
    /\ uvOut.rotation = IF rot = 0 THEN <<>> ELSE <<rot>>

----------------------------------------------------------------------------
(* Properties of the bone hierarchy *)

\* the objects parented to the bone b of the armature
ParentedTo(b) ==
    {o \in ObjIds : ObjParent(scene, o) = armature /\ ObjParentBone(scene, o) = b}

\* the object a bone with objects is represented by: the one named after
\* the bone, otherwise the first of armature.children parented to the bone
ExpectedMain(b) ==
    IF \E o \in ParentedTo(b) : ObjName(scene, o) = b
    THEN CHOOSE o \in ParentedTo(b) : ObjName(scene, o) = b
    ELSE CHOOSE o \in ParentedTo(b) : \A p \in ParentedTo(b) : o <= p

\* the bone hierarchy of the armature found is built
HierarchyBuilt == armature # 0 /\ pc # "armature"

\* C23: after get_bone_hierarchy, every bone with at least one parented
\* object has a node whose object list is a permutation of exactly the
\* objects parented to the bone, whose main is the object named after the
\* bone if there is one and the first object met otherwise, and main is at
\* position 0 of the list; bones without parented objects have no node.
\* The export then starts at the mains of the root bones.
C23_BoneNodes ==
    HierarchyBuilt =>
       Strict(LAMBDA bh :
          /\ \A i \in 1..Len(Bones(scene)) :
                LET b == Bones(scene)[i].name
                IN IF ParentedTo(b) = {}
                   THEN b \notin DOMAIN bh
                   ELSE /\ b \in DOMAIN bh
                        /\ Len(bh[b].children) = Cardinality(ParentedTo(b))
                        /\ {bh[b].children[k] : k \in 1..Len(bh[b].children)}
                              = ParentedTo(b)
                        /\ bh[b].main = ExpectedMain(b)
                        /\ bh[b].children[1] = bh[b].main
          /\ pc # "error" =>
                \A i \in 1..Len(RootBones(scene)) :
                   export_objects[i] = ExpectedMain(RootBones(scene)[i].name),
          get_bone_hierarchy(scene, armature))

\* the bone body has two objects, of which the second met is named after
\* the bone and is its main, and the bone hand has none
C23_Witness ==
    /\ HierarchyBuilt /\ pc = "geometry"
    /\ ParentedTo(S_body) = {2, 3}
    /\ ParentedTo(S_hand) = {}
    /\ get_bone_hierarchy(scene, armature)[S_body].children = <<3, 2>>
    /\ S_hand \notin DOMAIN get_bone_hierarchy(scene, armature)
    /\ export_objects[1] = 3

\* the objects of a sequence of elements
ObjsOf(elems) == {elems[k].obj : k \in 1..Len(elems)}

\* the objects among X that make an element: meshes with 8 vertices
MakeElement(X) == {c \in X : ObjType(scene, c) = "MESH" /\ ~NotCuboid(scene, c)}

\* obj.children
OrdinaryChildren(o) == {c \in ObjIds : ObjParent(scene, c) = o}

\* o is the main representative of the bone it is parented to
RepresentsBone(o) ==
    /\ armature # 0
    /\ ObjParent(scene, o) = armature
    /\ ObjParentBone(scene, o) # <<>>
    /\ ExpectedMain(ObjParentBone(scene, o)) = o

\* the main representatives of the immediate child bones of the bone b
ChildBoneMains(b) ==
    {ExpectedMain(Bones(scene)[i].name) :
        i \in {j \in 1..Len(Bones(scene)) :
                 /\ Bones(scene)[j].parent = b
                 /\ ParentedTo(Bones(scene)[j].name) # {}}}

\* C24: an element built from a bone's main representative is named after
\* the bone and has as children, besides its ordinary object children, the
\* other objects parented to the same bone and the main representatives of
\* the bone's immediate child bones; an element built from any other object
\* keeps its own object name and has only its ordinary object children
\* (children being the objects that make an element: cuboid meshes).
C24_BoneElementChildren ==
    \A pr \in ElementPairs(root_elements, <<>>) :
       LET e == pr[1]
           b == ObjParentBone(scene, e.obj)
       IN /\ Len(e.children) = Cardinality(ObjsOf(e.children))
          /\ IF RepresentsBone(e.obj)
             THEN /\ e.name = b
                  /\ ObjsOf(e.children) =
                        MakeElement(OrdinaryChildren(e.obj)
                                       \cup (ParentedTo(b) \ {e.obj})
                                       \cup ChildBoneMains(b))
             ELSE /\ e.name = ObjName(scene, e.obj)
                  /\ ObjsOf(e.children) = MakeElement(OrdinaryChildren(e.obj))

\* the export is done: the cube stands for the root bone body, whose name
\* it has, with its own child and the main of the child bone arm below
\* it; that main has the other object of the bone arm below it, and that
\* one keeps its name
C24_Witness ==
    /\ pc = "done" /\ armature # 0
    /\ Len(root_elements) = 1
    /\ root_elements[1].obj = 2
    /\ root_elements[1].name = S_body
    /\ ObjsOf(root_elements[1].children) = {5, 4}
    /\ \E k \in 1..2 :
          /\ root_elements[1].children[k].name = S_arm
          /\ Len(root_elements[1].children[k].children) = 1
          /\ root_elements[1].children[k].children[1].obj = 3
          /\ root_elements[1].children[k].children[1].name = S_body
          /\ root_elements[1].children[k].children[1].children = <<>>

----------------------------------------------------------------------------
(* The export without a generated texture *)

\* C25 as stated: with texture generation disabled the export still
\* completes: post-processing does not read the color-to-uv map that was
\* never built, and no face of the document written is a raw color tuple.
C25_AsStated ==
    ~options.generate_texture =>
       /\ ~(pc = "error" /\ err = "NameError: color_tex_uv_map")
       /\ pc = "done" => ~HasTupleFace(model_json.elements)

----------------------------------------------------------------------------
(* The objects of an armature in the output tree *)

\* the number of elements of the tree made from the object o
RECURSIVE CountObj(_, _)
CountObj(elems, o) ==
    IF elems = <<>> THEN 0
    ELSE (IF Head(elems).obj = o THEN 1 ELSE 0)
            + CountObj(Head(elems).children, o)
            + CountObj(Tail(elems), o)

\* the objects parented to a bone of the armature
BoneObjects ==
    {o \in ObjIds : /\ ObjParent(scene, o) = armature
                    /\ ObjParentBone(scene, o) # <<>>
                    /\ IsBone(scene, ObjParentBone(scene, o))}

\* C26 as stated: when an armature is exported and every mesh is a cuboid
\* of 8 vertices, every object parented to a bone of the armature makes
\* exactly one element of the tree written, whatever the shape of the bone
\* tree, bones without objects whose descendant bones have objects included.
C26_AsStated ==
    (pc = "done" /\ armature # 0 /\ scene.bad = 0) =>
       \A o \in BoneObjects : CountObj(model_json.elements, o) = 1

============================================================================
